---- MODULE Spec2Model ----
(***************************************************************************)
(* Model of heistp/ccafct.                                                 *)
(*                                                                         *)
(*  - Test.Run / Test.doRequest (the FCT workload generator) together with *)
(*    Data.AddFlow (the flow record log), checked under SpecRun.           *)
(*  - executor.Executor (the job orchestrator), checked under SpecExec.    *)
(*                                                                         *)
(* Goroutines are modelled as processes with an explicit position; every   *)
(* blocking primitive (WaitGroup.Wait, Mutex.Lock, channel send/receive,   *)
(* select) is a guard.                                                     *)
(***************************************************************************)
EXTENDS Integers, Sequences, FiniteSets, TLC

\* ------------------------------------------------------------------ bounds

\* Largest flow count (Test.Flows) explored.
MaxFlows == 3

\* Largest flow count explored when the readings of time.Now() are told
\* apart (SpecRunTimed).
MaxTimedFlows == 2

\* The flow lengths int(t.LenDist.Rand()) is drawn from when Run is called on
\* a Test that is not told (SpecRun): two of the draws of a distribution
\* with short lengths.
ReqLens == {0, 1}

\* ------------------------------------------------------------ state (Run)

VARIABLES
    Flows,       \* Test.Flows: the number of flows of the plan
    DisableGC,   \* Params.DisableGC
    gcPercent,   \* the collector setting changed by debug.SetGCPercent
    pcRun,       \* position of the goroutine executing Test.Run
    i,           \* loop index of the issuance loop
    loopExit,    \* how the issuance loop ended: none, exhausted, ctx, err
    parentDone,  \* the context passed to Run has been cancelled
    cancelled,   \* cancel() of the derived context has been called
    errCh,       \* the buffered channel errCh (its queued errors)
    err,         \* the named result err of Run
    wg,          \* counter of the embedded sync.WaitGroup of Test
    timed,       \* whether the readings of time.Now() are told apart
    clock,       \* time.Now(): every reading is later than the one before
    dataStart,   \* data.Start
    dataEnd,     \* data.End
    dataFlow,    \* data.Flow, the variable the flow goroutines append to
    mu,          \* the embedded sync.Mutex of Data: 0 free, else the holder
    issued,      \* the loop indexes for which a flow goroutine was spawned
    tpc,         \* position of each flow goroutine
    reqLen,      \* reqLen argument of each flow goroutine
    flow,        \* local variable flow of each flow goroutine
    rerr,        \* local variable rerr of each flow goroutine
    tmp,         \* slice value read by append inside AddFlow
    retFlow,     \* Flow of the Data value Run returned to its caller
    retErr       \* the error Run returned to its caller

runVars == <<Flows, DisableGC, gcPercent, pcRun, i, loopExit, parentDone,
             cancelled, errCh, err, wg, timed, clock, dataStart, dataEnd,
             dataFlow, mu, issued, tpc, reqLen, flow, rerr, tmp, retFlow, retErr>>

\* ------------------------------------------------------- state (Executor)

VARIABLES
    jobCap,        \* the number of RunCommand calls explored
    eIgnoreErrors, \* Executor.IgnoreErrors
    Job,           \* Executor.Job: the jobs, each with its Spec, its Err, the
                   \* counter of its WaitGroup, its process and its goroutines
    Errors,        \* Executor.Errors
    waited,        \* Executor.waited
    pcExec,        \* position of the caller of the Executor: idle, blocked in
                   \* a foreground RunCommand (fg) or in Wait (wait), or
                   \* stopped by a panic
    cur,           \* index in Job of the job the caller is blocked on
    op,            \* the kind of the last step taken
    jobRet,        \* the job the last RunCommand returned: 0 (nil) or its
                   \* index in Job
    errRet         \* the error the last Err returned

execVars == <<jobCap, eIgnoreErrors, Job, Errors, waited, pcExec, cur, op, jobRet,
              errRet>>

\* ------------------------------------------------- state (pure functions)

VARIABLES
    fn,            \* the function that was applied: none before the call
    arg,           \* the arguments of the call
    res            \* what the call returned

pureVars == <<fn, arg, res>>

vars == <<runVars, execVars, pureVars>>

\* The nil error.
Nil == "nil"

\* The ways doRequest fails: "transport" is an error returned by client.Do
\* or resp.Write (a transport error, or the cancellation of the request's
\* context, which can strike at any moment of the round trip), "status" is a
\* response whose status is not 200.
ErrKinds == {"transport", "status"}

Tasks == 1..MaxFlows

\* The zero value of Flow.  The fields id and body are not fields of Flow: id
\* names the goroutine that built the record, to tell the records of a log
\* apart, and body keeps the number of body bytes of the flow's response.
ZeroFlow == [id |-> 0, Start |-> 0, End |-> 0, Length |-> 0, body |-> 0]

\* time.Now().  When timed is false all readings are abstracted to 0.
Now == IF timed THEN clock ELSE 0

\* The clock after a reading of time.Now().
Tick == IF timed THEN clock + 1 ELSE clock

\* ctx.Done() is closed: the derived context is done when its parent is, or
\* when its cancel function has been called.
CtxDone == parentDone \/ cancelled

\* Mutant of ErrChCap: room for a single error, make(chan error, 1).
ErrChCap_single == IF Flows > 0 THEN 1 ELSE 0

\* Capacity of errCh: make(chan error, t.Flows).
ErrChCap == Flows

\* Mutant of AppendFlow: the new record is put in front of the log.
AppendFlow_prepend(s, f) == <<f>> \o s

\* d.Flow = append(d.Flow, f)
AppendFlow(s, f) == Append(s, f)

\* -------------------------------------------------------------- Init (Run)

\* The state of a Test and of the goroutines of Run before Run is called.
\* The state of Run but for the position of its caller.
RunIdle ==
    /\ gcPercent = 100
    /\ i = 0
    /\ loopExit = "none"
    /\ parentDone = FALSE
    /\ cancelled = FALSE
    /\ errCh = <<>>
    /\ err = Nil
    /\ wg = 0
    /\ clock = 1
    /\ dataStart = 0
    /\ dataEnd = 0
    /\ dataFlow = <<>>
    /\ mu = 0
    /\ issued = <<>>
    /\ tpc = [k \in Tasks |-> "idle"]
    /\ reqLen = [k \in Tasks |-> 0]
    /\ flow = [k \in Tasks |-> ZeroFlow]
    /\ rerr = [k \in Tasks |-> Nil]
    /\ tmp = [k \in Tasks |-> <<>>]
    /\ retFlow = <<>>
    /\ retErr = Nil

\* Run has not been called yet.
RunFresh ==
    /\ pcRun = "entry"
    /\ RunIdle

\* The zero value of Executor, but for IgnoreErrors.
\* No pure function has been applied.
PureFresh ==
    /\ fn = "none"
    /\ arg = Nil
    /\ res = Nil

ExecFresh ==
    /\ Job = <<>>
    /\ Errors = 0
    /\ waited = FALSE
    /\ pcExec = "idle"
    /\ cur = 0
    /\ op = "init"
    /\ jobRet = 0
    /\ errRet = Nil

InitRun ==
    /\ Flows \in 0..MaxFlows
    /\ DisableGC \in BOOLEAN
    /\ timed = FALSE
    /\ RunFresh
    /\ jobCap = 0
    /\ eIgnoreErrors = FALSE
    /\ ExecFresh
    /\ PureFresh

\* ------------------------------------------------------------ Test.Run

\* The caller's context is cancelled (any time before Run has returned,
\* also before Run is entered).
CancelParent ==
    /\ pcRun # "done"
    /\ ~parentDone
    /\ parentDone' = TRUE
    /\ UNCHANGED <<execVars, pureVars>>
    /\ UNCHANGED <<Flows, DisableGC, timed, gcPercent, pcRun, i, loopExit, cancelled,
                   errCh, err, wg, clock, dataStart, dataEnd, dataFlow, mu,
                   issued, tpc, reqLen, flow, rerr, tmp, retFlow, retErr>>

\* Run up to the issuance loop: the collector setting, the derived context,
\* newData, data.Start and errCh.
RunBegin ==
    /\ pcRun = "entry"
    /\ gcPercent' = IF DisableGC THEN -1 ELSE gcPercent
    /\ dataFlow' = <<>>
    /\ dataStart' = Now
    /\ clock' = Tick
    /\ errCh' = <<>>
    /\ pcRun' = "loop"
    /\ UNCHANGED <<execVars, pureVars>>
    /\ UNCHANGED <<Flows, DisableGC, timed, i, loopExit, parentDone, cancelled, err,
                   wg, dataEnd, mu, issued, tpc, reqLen, flow, rerr, tmp,
                   retFlow, retErr>>

\* sigma of t.LenDist is 0: log95 - log5 = 0 when LenP5 = LenP95.
PointLen(t) == t.LenP5 = t.LenP95

\* The values int(t.LenDist.Rand()) can have.  LogNormal.Rand() is
\* exp(z * Sigma + Mu) for a normal variate z.  On the Test that NewTest
\* returned (res) with sigma = 0 it is exp(mu), the float64 that mfl is, so
\* every draw is t.MeanFlowLen; the draws with sigma > 0 are not enumerated.
\* Where the Test is not told the draws are ReqLens.
LenDraws ==
    IF fn = "NewTest"
    THEN IF PointLen(res) THEN {res.MeanFlowLen} ELSE {}
    ELSE ReqLens

\* reqLen := int(t.LenDist.Rand()); t.Add(1); go func(reqLen, errCh){...}
\* for loop index i (the goroutine of index i is task i+1), then i++.
Spawn(len) ==
    /\ wg' = wg + 1
    /\ tpc' = [tpc EXCEPT ![i + 1] = "start"]
    /\ reqLen' = [reqLen EXCEPT ![i + 1] = len]
    /\ issued' = Append(issued, i)
    /\ i' = i + 1

\* Iteration i = 0: no select, the first flow is spawned at once.
IssueFirst ==
    /\ pcRun = "loop"
    /\ i = 0
    /\ i < Flows
    /\ \E len \in LenDraws : Spawn(len)
    /\ UNCHANGED <<execVars, pureVars>>
    /\ UNCHANGED <<Flows, DisableGC, timed, gcPercent, pcRun, loopExit, parentDone,
                   cancelled, errCh, err, clock, dataStart, dataEnd, dataFlow,
                   mu, flow, rerr, tmp, retFlow, retErr>>

\* Iteration i > 0, the select takes case <-time.After(wait): the timer may
\* have expired whatever the state of the other two channels, and select
\* chooses among its ready cases at random.
IssueAfterTimer ==
    /\ pcRun = "loop"
    /\ i > 0
    /\ i < Flows
    /\ \E len \in LenDraws : Spawn(len)
    /\ UNCHANGED <<execVars, pureVars>>
    /\ UNCHANGED <<Flows, DisableGC, timed, gcPercent, pcRun, loopExit, parentDone,
                   cancelled, errCh, err, clock, dataStart, dataEnd, dataFlow,
                   mu, flow, rerr, tmp, retFlow, retErr>>

\* Iteration i > 0, the select takes case <-ctx.Done(): break loop.
BreakOnCtxDone ==
    /\ pcRun = "loop"
    /\ i > 0
    /\ i < Flows
    /\ CtxDone
    /\ loopExit' = "ctx"
    /\ pcRun' = "wait"
    /\ UNCHANGED <<execVars, pureVars>>
    /\ UNCHANGED <<Flows, DisableGC, timed, gcPercent, i, parentDone, cancelled,
                   errCh, err, wg, clock, dataStart, dataEnd, dataFlow, mu,
                   issued, tpc, reqLen, flow, rerr, tmp, retFlow, retErr>>

\* Mutant of BreakOnErr: "break" in place of "break loop" leaves the select
\* only, and the iteration goes on to spawn its flow.
BreakOnErr_breakSelect ==
    /\ pcRun = "loop"
    /\ i > 0
    /\ i < Flows
    /\ errCh # <<>>
    /\ err' = Head(errCh)
    /\ errCh' = Tail(errCh)
    /\ cancelled' = TRUE
    /\ loopExit' = "err"
    /\ \E len \in LenDraws : Spawn(len)
    /\ UNCHANGED <<execVars, pureVars>>
    /\ UNCHANGED <<Flows, DisableGC, timed, gcPercent, pcRun, parentDone, clock,
                   dataStart, dataEnd, dataFlow, mu, flow, rerr, tmp, retFlow,
                   retErr>>

\* Iteration i > 0, the select takes case err = <-errCh: cancel(); break loop.
BreakOnErr ==
    /\ pcRun = "loop"
    /\ i > 0
    /\ i < Flows
    /\ errCh # <<>>
    /\ err' = Head(errCh)
    /\ errCh' = Tail(errCh)
    /\ cancelled' = TRUE
    /\ loopExit' = "err"
    /\ pcRun' = "wait"
    /\ UNCHANGED <<execVars, pureVars>>
    /\ UNCHANGED <<Flows, DisableGC, timed, gcPercent, i, parentDone, wg, clock,
                   dataStart, dataEnd, dataFlow, mu, issued, tpc, reqLen, flow,
                   rerr, tmp, retFlow, retErr>>

\* The loop condition i < t.Flows is false.
LoopExhausted ==
    /\ pcRun = "loop"
    /\ i >= Flows
    /\ loopExit' = "exhausted"
    /\ pcRun' = "wait"
    /\ UNCHANGED <<execVars, pureVars>>
    /\ UNCHANGED <<Flows, DisableGC, timed, gcPercent, i, parentDone, cancelled,
                   errCh, err, wg, clock, dataStart, dataEnd, dataFlow, mu,
                   issued, tpc, reqLen, flow, rerr, tmp, retFlow, retErr>>

\* Mutant of JoinBarrier: t.Wait() returns whatever the counter is.
JoinBarrier_noWait ==
    /\ pcRun = "wait"
    /\ pcRun' = "end"
    /\ UNCHANGED <<execVars, pureVars>>
    /\ UNCHANGED <<Flows, DisableGC, timed, gcPercent, i, loopExit, parentDone,
                   cancelled, errCh, err, wg, clock, dataStart, dataEnd,
                   dataFlow, mu, issued, tpc, reqLen, flow, rerr, tmp, retFlow,
                   retErr>>

\* t.Wait() returns: the WaitGroup counter is zero.
JoinBarrier ==
    /\ pcRun = "wait"
    /\ wg = 0
    /\ pcRun' = "end"
    /\ UNCHANGED <<execVars, pureVars>>
    /\ UNCHANGED <<Flows, DisableGC, timed, gcPercent, i, loopExit, parentDone,
                   cancelled, errCh, err, wg, clock, dataStart, dataEnd,
                   dataFlow, mu, issued, tpc, reqLen, flow, rerr, tmp, retFlow,
                   retErr>>

\* Mutant of RunEnd: the end timestamp without debug.SetGCPercent(100).
RunEnd_noRestore ==
    /\ pcRun = "end"
    /\ dataEnd' = Now
    /\ clock' = Tick
    /\ pcRun' = "ret"
    /\ UNCHANGED <<execVars, pureVars>>
    /\ UNCHANGED <<Flows, DisableGC, timed, gcPercent, i, loopExit, parentDone,
                   cancelled, errCh, err, wg, dataStart, dataFlow, mu, issued, tpc,
                   reqLen, flow, rerr, tmp, retFlow, retErr>>

\* data.End = time.Now() and the collector setting restored.
RunEnd ==
    /\ pcRun = "end"
    /\ dataEnd' = Now
    /\ clock' = Tick
    /\ gcPercent' = IF DisableGC THEN 100 ELSE gcPercent
    /\ pcRun' = "ret"
    /\ UNCHANGED <<execVars, pureVars>>
    /\ UNCHANGED <<Flows, DisableGC, timed, i, loopExit, parentDone, cancelled, errCh,
                   err, wg, dataStart, dataFlow, mu, issued, tpc, reqLen, flow,
                   rerr, tmp, retFlow, retErr>>

\* return: the results data and err are copied to the caller.  The copy of
\* data takes no lock.
RunReturn ==
    /\ pcRun = "ret"
    /\ retFlow' = dataFlow
    /\ retErr' = err
    /\ pcRun' = "done"
    /\ UNCHANGED <<execVars, pureVars>>
    /\ UNCHANGED <<Flows, DisableGC, timed, gcPercent, i, loopExit, parentDone,
                   cancelled, errCh, err, wg, clock, dataStart, dataEnd,
                   dataFlow, mu, issued, tpc, reqLen, flow, rerr, tmp>>

\* ------------------------------------------------- the flow goroutines

\* doRequest up to client.Do: flow.Start = time.Now().
DoRequestStart(k) ==
    /\ tpc[k] = "start"
    /\ flow' = [flow EXCEPT ![k].id = k, ![k].Start = Now]
    /\ clock' = Tick
    /\ tpc' = [tpc EXCEPT ![k] = "inflight"]
    /\ UNCHANGED <<execVars, pureVars>>
    /\ UNCHANGED <<Flows, DisableGC, timed, gcPercent, pcRun, i, loopExit, parentDone,
                   cancelled, errCh, err, wg, dataStart, dataEnd, dataFlow, mu,
                   issued, reqLen, rerr, tmp, retFlow, retErr>>

RECURSIVE ItoaLen(_)
\* len(strconv.Itoa(n)) for n >= 0.
ItoaLen(n) == IF n < 10 THEN 1 ELSE 1 + ItoaLen(n \div 10)

\* The bytes Response.Write writes before the body of a 200 answer of this
\* repository's server to a body of bytes bytes: the status line
\* "HTTP/1.1 200 OK", the header lines and the empty line, each with its
\* CR LF.  handleFCT sets no header, so the header is what net/http adds: the
\* Date line, the Content-Type line sniffed from the zero bytes of s.buf when
\* there is a body, and the Content-Length line, which net/http computes for
\* a body that fits its buffer of 2048 bytes; the lengths requested
\* here are below it.
ResponseHead(bytes) ==
    LET statusLine == Len("HTTP/1.1 200 OK") + 2
        dateLine == Len("Date: Mon, 02 Jan 2006 15:04:05 GMT") + 2
        typeLine == IF bytes > 0
                    THEN Len("Content-Type: application/octet-stream") + 2
                    ELSE 0
        lengthLine == Len("Content-Length: ") + ItoaLen(bytes) + 2
    IN  statusLine + dateLine + typeLine + lengthLine + 2

\* The number of bytes resp.Write(cw) hands to the countWriter for a response
\* with a body of bytes bytes: Response.Write writes the status line, the
\* header and the body.
ResponseLen(bytes) == ResponseHead(bytes) + bytes

\* doRequest returns a flow and a nil error: status 200, the response with a
\* body of bytes bytes written to the countWriter, flow.End = time.Now(),
\* flow.Length = cw.Bytes; the deferred t.Done() runs as doRequest returns.
DoRequestOK(k, bytes) ==
    /\ tpc[k] = "inflight"
    /\ flow' = [flow EXCEPT ![k].End = Now, ![k].Length = ResponseLen(bytes),
                            ![k].body = bytes]
    /\ clock' = Tick
    /\ wg' = wg - 1
    /\ tpc' = [tpc EXCEPT ![k] = "lock"]
    /\ UNCHANGED <<execVars, pureVars>>
    /\ UNCHANGED <<Flows, DisableGC, timed, gcPercent, pcRun, i, loopExit, parentDone,
                   cancelled, errCh, err, dataStart, dataEnd, dataFlow, mu,
                   issued, reqLen, rerr, tmp, retFlow, retErr>>

\* Mutant of DoRequestFail: doRequest returns the error without t.Done().
DoRequestFail_noDone(k, e) ==
    /\ tpc[k] = "inflight"
    /\ rerr' = [rerr EXCEPT ![k] = e]
    /\ tpc' = [tpc EXCEPT ![k] = "send"]
    /\ UNCHANGED <<execVars, pureVars>>
    /\ UNCHANGED <<Flows, DisableGC, timed, gcPercent, pcRun, i, loopExit, parentDone,
                   cancelled, errCh, err, wg, clock, dataStart, dataEnd, dataFlow,
                   mu, issued, reqLen, flow, tmp, retFlow, retErr>>

\* doRequest returns an error of kind e; the deferred t.Done() runs as
\* doRequest returns.
DoRequestFail(k, e) ==
    /\ tpc[k] = "inflight"
    /\ rerr' = [rerr EXCEPT ![k] = e]
    /\ wg' = wg - 1
    /\ tpc' = [tpc EXCEPT ![k] = "send"]
    /\ UNCHANGED <<execVars, pureVars>>
    /\ UNCHANGED <<Flows, DisableGC, timed, gcPercent, pcRun, i, loopExit, parentDone,
                   cancelled, errCh, err, clock, dataStart, dataEnd, dataFlow,
                   mu, issued, reqLen, flow, tmp, retFlow, retErr>>

\* errCh <- rerr; return.  The send blocks while the buffer is full.
SendErr(k) ==
    /\ tpc[k] = "send"
    /\ Len(errCh) < ErrChCap
    /\ errCh' = Append(errCh, rerr[k])
    /\ tpc' = [tpc EXCEPT ![k] = "fin"]
    /\ UNCHANGED <<execVars, pureVars>>
    /\ UNCHANGED <<Flows, DisableGC, timed, gcPercent, pcRun, i, loopExit, parentDone,
                   cancelled, err, wg, clock, dataStart, dataEnd, dataFlow, mu,
                   issued, reqLen, flow, rerr, tmp, retFlow, retErr>>

\* ------------------------------------------------------- Data.AddFlow

\* Mutant of AddFlowLock: the lock is taken without waiting for its holder.
AddFlowLock_noWait(k) ==
    /\ tpc[k] = "lock"
    /\ mu' = k
    /\ tpc' = [tpc EXCEPT ![k] = "read"]
    /\ UNCHANGED <<execVars, pureVars>>
    /\ UNCHANGED <<Flows, DisableGC, timed, gcPercent, pcRun, i, loopExit, parentDone,
                   cancelled, errCh, err, wg, clock, dataStart, dataEnd,
                   dataFlow, issued, reqLen, flow, rerr, tmp, retFlow, retErr>>

\* d.Lock()
AddFlowLock(k) ==
    /\ tpc[k] = "lock"
    /\ mu = 0
    /\ mu' = k
    /\ tpc' = [tpc EXCEPT ![k] = "read"]
    /\ UNCHANGED <<execVars, pureVars>>
    /\ UNCHANGED <<Flows, DisableGC, timed, gcPercent, pcRun, i, loopExit, parentDone,
                   cancelled, errCh, err, wg, clock, dataStart, dataEnd,
                   dataFlow, issued, reqLen, flow, rerr, tmp, retFlow, retErr>>

\* append(d.Flow, f) reads the slice d.Flow ...
AddFlowRead(k) ==
    /\ tpc[k] = "read"
    /\ tmp' = [tmp EXCEPT ![k] = dataFlow]
    /\ tpc' = [tpc EXCEPT ![k] = "write"]
    /\ UNCHANGED <<execVars, pureVars>>
    /\ UNCHANGED <<Flows, DisableGC, timed, gcPercent, pcRun, i, loopExit, parentDone,
                   cancelled, errCh, err, wg, clock, dataStart, dataEnd,
                   dataFlow, mu, issued, reqLen, flow, rerr, retFlow, retErr>>

RECURSIVE InsertByEnd(_, _)
\* The record f put in the log q before the first record with a later End.
InsertByEnd(q, f) ==
    IF q = <<>> THEN <<f>>
    ELSE IF f.End < Head(q).End THEN <<f>> \o q
    ELSE <<Head(q)>> \o InsertByEnd(Tail(q), f)

\* Mutant of AddFlowWrite: the record is put in the log at the place of its
\* End timestamp.
AddFlowWrite_byEnd(k) ==
    /\ tpc[k] = "write"
    /\ dataFlow' = InsertByEnd(tmp[k], flow[k])
    /\ tmp' = [tmp EXCEPT ![k] = <<>>]
    /\ tpc' = [tpc EXCEPT ![k] = "unlock"]
    /\ UNCHANGED <<execVars, pureVars>>
    /\ UNCHANGED <<Flows, DisableGC, timed, gcPercent, pcRun, i, loopExit, parentDone,
                   cancelled, errCh, err, wg, clock, dataStart, dataEnd, mu,
                   issued, reqLen, flow, rerr, retFlow, retErr>>

\* ... and the extended slice is stored in d.Flow.
AddFlowWrite(k) ==
    /\ tpc[k] = "write"
    /\ dataFlow' = AppendFlow(tmp[k], flow[k])
    /\ tmp' = [tmp EXCEPT ![k] = <<>>]
    /\ tpc' = [tpc EXCEPT ![k] = "unlock"]
    /\ UNCHANGED <<execVars, pureVars>>
    /\ UNCHANGED <<Flows, DisableGC, timed, gcPercent, pcRun, i, loopExit, parentDone,
                   cancelled, errCh, err, wg, clock, dataStart, dataEnd, mu,
                   issued, reqLen, flow, rerr, retFlow, retErr>>

\* defer d.Unlock(); the goroutine ends.
AddFlowUnlock(k) ==
    /\ tpc[k] = "unlock"
    /\ mu' = 0
    /\ tpc' = [tpc EXCEPT ![k] = "fin"]
    /\ UNCHANGED <<execVars, pureVars>>
    /\ UNCHANGED <<Flows, DisableGC, timed, gcPercent, pcRun, i, loopExit, parentDone,
                   cancelled, errCh, err, wg, clock, dataStart, dataEnd,
                   dataFlow, issued, reqLen, flow, rerr, tmp, retFlow, retErr>>

\* ------------------------------------------------------------ SpecRun

NextRun ==
    \/ CancelParent
    \/ RunBegin
    \/ IssueFirst
    \/ IssueAfterTimer
    \/ BreakOnCtxDone
    \/ BreakOnErr
    \/ LoopExhausted
    \/ JoinBarrier
    \/ RunEnd
    \/ RunReturn
    \/ \E k \in Tasks : DoRequestStart(k)
    \/ \E k \in Tasks : DoRequestOK(k, reqLen[k])
    \/ \E k \in Tasks : \E e \in ErrKinds : DoRequestFail(k, e)
    \/ \E k \in Tasks : SendErr(k)
    \/ \E k \in Tasks : AddFlowLock(k)
    \/ \E k \in Tasks : AddFlowRead(k)
    \/ \E k \in Tasks : AddFlowWrite(k)
    \/ \E k \in Tasks : AddFlowUnlock(k)

SpecRun == InitRun /\ [][NextRun]_vars

\* Largest flow count explored under the fairness conditions.
MaxFairFlows == 2

\* Run with flow counts up to MaxFairFlows.
InitRunFair ==
    /\ Flows \in 0..MaxFairFlows
    /\ DisableGC \in BOOLEAN
    /\ timed = FALSE
    /\ RunFresh
    /\ jobCap = 0
    /\ eIgnoreErrors = FALSE
    /\ ExecFresh
    /\ PureFresh

\* A step of Run or of one of its goroutines: every step of the program but
\* the cancellation of the caller's context.
RunStep ==
    \/ RunBegin
    \/ IssueFirst
    \/ IssueAfterTimer
    \/ BreakOnCtxDone
    \/ BreakOnErr
    \/ LoopExhausted
    \/ JoinBarrier
    \/ RunEnd
    \/ RunReturn
    \/ \E k \in Tasks : DoRequestStart(k)
    \/ \E k \in Tasks : DoRequestOK(k, reqLen[k])
    \/ \E k \in Tasks : \E e \in ErrKinds : DoRequestFail(k, e)
    \/ \E k \in Tasks : SendErr(k)
    \/ \E k \in Tasks : AddFlowLock(k)
    \/ \E k \in Tasks : AddFlowRead(k)
    \/ \E k \in Tasks : AddFlowWrite(k)
    \/ \E k \in Tasks : AddFlowUnlock(k)

\* Run called, the goroutines scheduled, every timer fired and every round
\* trip ended: while the program can take a step it takes one.  Nothing
\* makes the caller cancel its context.
FairSpecRun == InitRunFair /\ [][NextRun]_vars /\ WF_vars(RunStep)

\* The same program with the readings of time.Now() told apart.
InitRunTimed ==
    /\ Flows \in 0..MaxTimedFlows
    /\ DisableGC \in BOOLEAN
    /\ timed = TRUE
    /\ RunFresh
    /\ jobCap = 0
    /\ eIgnoreErrors = FALSE
    /\ ExecFresh
    /\ PureFresh

SpecRunTimed == InitRunTimed /\ [][NextRun]_vars

\* ------------------------------------------------------------ Executor

\* Largest number of jobs in Executor.Job explored.
MaxJobs == 2

\* The number of RunCommand calls explored under the fairness conditions.
MaxFairJobs == 1

\* The job specifications submitted: a foreground job, alone, with
\* IgnoreErrors or with a Stdin payload, and a background job, alone, with
\* NoWait or with IgnoreErrors (the competitor of runTest).
Specs ==
    { [Background |-> FALSE, NoWait |-> FALSE, IgnoreErrors |-> FALSE, Stdin |-> FALSE],
      [Background |-> FALSE, NoWait |-> FALSE, IgnoreErrors |-> TRUE,  Stdin |-> FALSE],
      [Background |-> FALSE, NoWait |-> FALSE, IgnoreErrors |-> FALSE, Stdin |-> TRUE],
      [Background |-> TRUE,  NoWait |-> FALSE, IgnoreErrors |-> FALSE, Stdin |-> FALSE],
      [Background |-> TRUE,  NoWait |-> TRUE,  IgnoreErrors |-> FALSE, Stdin |-> FALSE],
      [Background |-> TRUE,  NoWait |-> FALSE, IgnoreErrors |-> TRUE,  Stdin |-> FALSE] }

\* Whether RunCommand fails before the process runs: "start" is a failure of
\* the creation of a pipe (cmd.StdinPipe, cmd.StdoutPipe or cmd.StderrPipe)
\* or of cmd.Start, which are all handled alike, by e.onError(job, err) and
\* return.
StartFailures == {"none", "start"}

\* job = &Job{Command: cmd, Spec: spec}.  proc is the state of Command's
\* process: unstarted (Command.Process is nil), running, exited (not yet
\* waited on) or waited (Command.Wait has returned); exit is its exit status
\* and sig the last signal sent to it while it runs.  stdinW, outD and errD
\* are the goroutines of slurp: absent (off), running (run) or ended (done).
NewJob(spec) ==
    [Background |-> spec.Background, NoWait |-> spec.NoWait,
     IgnoreErrors |-> spec.IgnoreErrors, Stdin |-> spec.Stdin,
     Err |-> Nil, wg |-> 0, proc |-> "unstarted", exit |-> 0, sig |-> "none",
     stdinW |-> "off", outD |-> "off", errD |-> "off"]

\* Mutant of OnErrorJob: the job's IgnoreErrors is not consulted.
OnErrorJob_always(job, e) == [job EXCEPT !.Err = e]

\* onError, its effect on the job: job.Err = err unless job.IgnoreErrors.
OnErrorJob(job, e) ==
    IF ~job.IgnoreErrors THEN [job EXCEPT !.Err = e] ELSE job

\* Mutant of OnErrorCount: the job's IgnoreErrors is not consulted.
OnErrorCount_always(job) == Errors + 1

\* onError, its effect on the Executor: e.Errors++ unless job.IgnoreErrors.
OnErrorCount(job) ==
    IF ~job.IgnoreErrors THEN Errors + 1 ELSE Errors

\* Mutant of Gated: the negation of e.IgnoreErrors is dropped.
Gated_notNegated == Errors > 0 /\ eIgnoreErrors

\* The test that makes RunCommand return at once: e.Errors > 0 &&
\* !e.IgnoreErrors.
Gated == Errors > 0 /\ ~eIgnoreErrors

\* Mutant of Slurp: slurp's deferred j.Done() is left out.
Slurp_noDone(job) ==
    [job EXCEPT !.stdinW = IF job.Stdin THEN "run" ELSE "off",
                !.outD = "run",
                !.errD = "run",
                !.wg = (IF job.Stdin THEN 1 ELSE 0) + 2 + 1]

\* job.Add(1); job.slurp(stdin, stdout, stderr): the stdin writer (when there
\* is a stdin pipe) and the two drain goroutines are started, each with
\* j.Add(1), and slurp's deferred j.Done() undoes the caller's Add(1).
Slurp(job) ==
    [job EXCEPT !.stdinW = IF job.Stdin THEN "run" ELSE "off",
                !.outD = "run",
                !.errD = "run",
                !.wg = (IF job.Stdin THEN 1 ELSE 0) + 2]

\* Mutant of Blocks: the test of job.Background is dropped and every job is
\* waited for.
Blocks_always(job) == TRUE

\* Whether RunCommand goes on to job.Wait() and job.Command.Wait() after the
\* start: if job.Background { ...; return }.
Blocks(job) == ~job.Background

\* The body of RunCommand: what the call does to the Executor.
DoRunCommand(spec, fail) ==
    /\ pcExec = "idle"
    /\ Len(Job) < jobCap
    /\ op' = "RunCommand"
    /\ IF Gated
       THEN /\ jobRet' = 0
            /\ UNCHANGED <<Job, Errors, pcExec, cur>>
       ELSE LET job == NewJob(spec)
                n == Len(Job) + 1
            IN  IF fail # "none"
                THEN /\ Job' = Append(Job, OnErrorJob(job, fail))
                     /\ Errors' = OnErrorCount(job)
                     /\ jobRet' = n
                     /\ UNCHANGED <<pcExec, cur>>
                ELSE /\ Job' = Append(Job, Slurp([job EXCEPT !.proc = "running"]))
                     /\ jobRet' = n
                     /\ UNCHANGED Errors
                     /\ IF Blocks(job)
                        THEN pcExec' = "fg" /\ cur' = n
                        ELSE UNCHANGED <<pcExec, cur>>
    /\ UNCHANGED <<jobCap, eIgnoreErrors, waited, errRet>>

\* RunCommand(cmd, spec), up to the point where it returns or blocks in
\* job.Wait().  fail tells where the start fails.
RunCommand(spec, fail) ==
    /\ DoRunCommand(spec, fail)
    /\ UNCHANGED <<runVars, pureVars>>

\* Mutant of RunCommandReturn: job.Command.Wait() without job.Wait() before
\* it.
RunCommandReturn_noJobWait ==
    /\ pcExec = "fg"
    /\ Job[cur].proc = "exited"
    /\ op' = "RunCommandReturn"
    /\ LET job == [Job[cur] EXCEPT !.proc = "waited"]
       IN  IF job.exit # 0
           THEN /\ Job' = [Job EXCEPT ![cur] = OnErrorJob(job, "exit")]
                /\ Errors' = OnErrorCount(job)
           ELSE /\ Job' = [Job EXCEPT ![cur] = job]
                /\ UNCHANGED Errors
    /\ pcExec' = "idle"
    /\ cur' = 0
    /\ UNCHANGED <<jobCap, eIgnoreErrors, waited, jobRet, errRet>>
    /\ UNCHANGED <<runVars, pureVars>>

\* The rest of a foreground RunCommand: job.Wait() returns when the
\* goroutines of slurp have ended, job.Command.Wait() returns when the process
\* has exited, with an error if the exit status is not zero.
RunCommandReturn ==
    /\ pcExec = "fg"
    /\ Job[cur].wg = 0
    /\ Job[cur].proc = "exited"
    /\ op' = "RunCommandReturn"
    /\ LET job == [Job[cur] EXCEPT !.proc = "waited"]
       IN  IF job.exit # 0
           THEN /\ Job' = [Job EXCEPT ![cur] = OnErrorJob(job, "exit")]
                /\ Errors' = OnErrorCount(job)
           ELSE /\ Job' = [Job EXCEPT ![cur] = job]
                /\ UNCHANGED Errors
    /\ pcExec' = "idle"
    /\ cur' = 0
    /\ UNCHANGED <<jobCap, eIgnoreErrors, waited, jobRet, errRet>>
    /\ UNCHANGED <<runVars, pureVars>>

\* The process of job j exits with status st.  A killed process does not
\* exit with status zero.
ProcExit(j, st) ==
    /\ pcExec # "panic"
    /\ j \in 1..Len(Job)
    /\ Job[j].proc = "running"
    /\ Job[j].sig = "kill" => st # 0
    /\ Job' = [Job EXCEPT ![j].proc = "exited", ![j].exit = st, ![j].sig = "none"]
    /\ op' = "proc"
    /\ UNCHANGED <<jobCap, eIgnoreErrors, Errors, waited, pcExec, cur, jobRet, errRet>>
    /\ UNCHANGED <<runVars, pureVars>>

\* The stdin writer of job j ends (stdin.Write returned), with its deferred
\* j.Done().
StdinWriterDone(j) ==
    /\ pcExec # "panic"
    /\ j \in 1..Len(Job)
    /\ Job[j].stdinW = "run"
    /\ Job' = [Job EXCEPT ![j].stdinW = "done", ![j].wg = @ - 1]
    /\ op' = "proc"
    /\ UNCHANGED <<jobCap, eIgnoreErrors, Errors, waited, pcExec, cur, jobRet, errRet>>
    /\ UNCHANGED <<runVars, pureVars>>

\* The drain goroutine of stdout of job j reads the end of its pipe and ends
\* with its deferred j.Done().  The pipe is at its end when every write end is
\* closed: when the process has exited, or earlier when the running process
\* has closed its stdout.
DrainStdoutDone(j) ==
    /\ pcExec # "panic"
    /\ j \in 1..Len(Job)
    /\ Job[j].outD = "run"
    /\ Job' = [Job EXCEPT ![j].outD = "done", ![j].wg = @ - 1]
    /\ op' = "proc"
    /\ UNCHANGED <<jobCap, eIgnoreErrors, Errors, waited, pcExec, cur, jobRet, errRet>>
    /\ UNCHANGED <<runVars, pureVars>>

\* The same for the drain goroutine of stderr.
DrainStderrDone(j) ==
    /\ pcExec # "panic"
    /\ j \in 1..Len(Job)
    /\ Job[j].errD = "run"
    /\ Job' = [Job EXCEPT ![j].errD = "done", ![j].wg = @ - 1]
    /\ op' = "proc"
    /\ UNCHANGED <<jobCap, eIgnoreErrors, Errors, waited, pcExec, cur, jobRet, errRet>>
    /\ UNCHANGED <<runVars, pureVars>>

\* The body of Wait at its call: what the call does to the Executor.
DoWait ==
    /\ pcExec = "idle"
    /\ op' = "Wait"
    /\ IF waited
       THEN UNCHANGED <<waited, pcExec, cur>>
       ELSE /\ waited' = TRUE
            /\ pcExec' = "wait"
            /\ cur' = 1
    /\ UNCHANGED <<jobCap, eIgnoreErrors, Job, Errors, jobRet, errRet>>

\* Mutant of WaitCall: e.waited is not consulted and every call enters the
\* loop.
WaitCall_noFlag ==
    /\ pcExec = "idle"
    /\ op' = "Wait"
    /\ waited' = TRUE
    /\ pcExec' = "wait"
    /\ cur' = 1
    /\ UNCHANGED <<jobCap, eIgnoreErrors, Job, Errors, jobRet, errRet>>
    /\ UNCHANGED <<runVars, pureVars>>

\* Wait() is called: it returns at once if e.waited, else sets e.waited and
\* enters its loop over e.Job.
WaitCall ==
    /\ DoWait
    /\ UNCHANGED <<runVars, pureVars>>

\* The loop of Wait at a job that is not a background job or has NoWait:
\* continue.
WaitSkip ==
    /\ pcExec = "wait"
    /\ cur <= Len(Job)
    /\ ~Job[cur].Background \/ Job[cur].NoWait
    /\ cur' = cur + 1
    /\ op' = "WaitLoop"
    /\ UNCHANGED <<jobCap, eIgnoreErrors, Job, Errors, waited, pcExec, jobRet, errRet>>
    /\ UNCHANGED <<runVars, pureVars>>

\* The loop of Wait at a background job: j.Wait() returns when the counter of
\* the job's WaitGroup is zero; j.Command.Wait() returns an error at once if
\* the process was never started or was already waited on, else returns when
\* the process has exited, with an error if the exit status is not zero.
WaitJoin ==
    /\ pcExec = "wait"
    /\ cur <= Len(Job)
    /\ Job[cur].Background /\ ~Job[cur].NoWait
    /\ Job[cur].wg = 0
    /\ Job[cur].proc \in {"unstarted", "exited", "waited"}
    /\ IF Job[cur].proc \in {"unstarted", "waited"}
       THEN /\ Job' = [Job EXCEPT ![cur] =
                        OnErrorJob(Job[cur], IF Job[cur].proc = "unstarted"
                                             THEN "notstarted" ELSE "waitagain")]
            /\ Errors' = OnErrorCount(Job[cur])
       ELSE LET job == [Job[cur] EXCEPT !.proc = "waited"]
            IN  IF job.exit # 0
                THEN /\ Job' = [Job EXCEPT ![cur] = OnErrorJob(job, "exit")]
                     /\ Errors' = OnErrorCount(job)
                ELSE /\ Job' = [Job EXCEPT ![cur] = job]
                     /\ UNCHANGED Errors
    /\ cur' = cur + 1
    /\ op' = "WaitLoop"
    /\ UNCHANGED <<jobCap, eIgnoreErrors, waited, pcExec, jobRet, errRet>>
    /\ UNCHANGED <<runVars, pureVars>>

\* The loop of Wait is over: Wait returns.
WaitReturn ==
    /\ pcExec = "wait"
    /\ cur > Len(Job)
    /\ pcExec' = "idle"
    /\ cur' = 0
    /\ op' = "WaitReturn"
    /\ UNCHANGED <<jobCap, eIgnoreErrors, Job, Errors, waited, jobRet, errRet>>
    /\ UNCHANGED <<runVars, pureVars>>

\* A background job whose Command.Process is nil: the call of a method of
\* Process on it is a nil pointer dereference.
NilProcess == {j \in 1..Len(Job) : Job[j].Background /\ Job[j].proc = "unstarted"}

\* The index at which the loop of Interrupt or Kill stops: the first job with
\* a nil Command.Process, or past the end of the list when there is none.
LoopEnd ==
    IF NilProcess = {}
    THEN Len(Job) + 1
    ELSE CHOOSE j \in NilProcess : \A k \in NilProcess : j <= k

\* The jobs after signal s was sent to every background job the loop reaches:
\* a running process receives it, a process that has exited is not affected
\* (Process.Signal and Process.Kill return an error, which is dropped).
Signalled(s) ==
    [j \in 1..Len(Job) |->
        IF /\ j < LoopEnd
           /\ Job[j].Background /\ Job[j].proc = "running" /\ Job[j].sig # "kill"
        THEN [Job[j] EXCEPT !.sig = s]
        ELSE Job[j]]

\* The body of Interrupt: what the call does to the Executor.
DoInterrupt ==
    /\ pcExec = "idle"
    /\ op' = "Interrupt"
    /\ IF NilProcess # {}
       THEN pcExec' = "panic" /\ Job' = Signalled("int")
       ELSE Job' = Signalled("int") /\ UNCHANGED pcExec
    /\ UNCHANGED <<jobCap, eIgnoreErrors, Errors, waited, cur, jobRet, errRet>>

\* Interrupt(): j.Command.Process.Signal(syscall.SIGINT) for every
\* background job.
Interrupt ==
    /\ DoInterrupt
    /\ UNCHANGED <<runVars, pureVars>>

\* The body of Kill: what the call does to the Executor.
DoKill ==
    /\ pcExec = "idle"
    /\ op' = "Kill"
    /\ IF NilProcess # {}
       THEN pcExec' = "panic" /\ Job' = Signalled("kill")
       ELSE Job' = Signalled("kill") /\ UNCHANGED pcExec
    /\ UNCHANGED <<jobCap, eIgnoreErrors, Errors, waited, cur, jobRet, errRet>>

\* Kill(): j.Command.Process.Kill() for every background job.
Kill ==
    /\ DoKill
    /\ UNCHANGED <<runVars, pureVars>>

\* fmt.Errorf("%d jobs with nonzero exit status", n): the text of the error.
ErrText(n) == ToString(n) \o " jobs with nonzero exit status"

\* Mutant of ErrValue: the error is made only from the second failure on.
ErrValue_fromSecond == IF Errors > 1 THEN ErrText(Errors) ELSE Nil

\* The value of Err(): the error that names e.Errors if e.Errors > 0, else
\* nil.
ErrValue == IF Errors > 0 THEN ErrText(Errors) ELSE Nil

\* The body of Err: what the call does to the Executor.
DoErr ==
    /\ pcExec = "idle"
    /\ op' = "Err"
    /\ errRet' = ErrValue
    /\ UNCHANGED <<jobCap, eIgnoreErrors, Job, Errors, waited, pcExec, cur, jobRet>>

\* Err() is called.
Err ==
    /\ DoErr
    /\ UNCHANGED <<runVars, pureVars>>

InitExec ==
    /\ Flows = 0
    /\ DisableGC = FALSE
    /\ timed = FALSE
    /\ RunFresh
    /\ jobCap = MaxJobs
    /\ eIgnoreErrors \in BOOLEAN
    /\ ExecFresh
    /\ PureFresh

NextExec ==
    \/ \E spec \in Specs : \E fail \in StartFailures : RunCommand(spec, fail)
    \/ RunCommandReturn
    \/ \E j \in 1..MaxJobs : \E st \in {0, 1} : ProcExit(j, st)
    \/ \E j \in 1..MaxJobs : StdinWriterDone(j)
    \/ \E j \in 1..MaxJobs : DrainStdoutDone(j)
    \/ \E j \in 1..MaxJobs : DrainStderrDone(j)
    \/ WaitCall
    \/ WaitSkip
    \/ WaitJoin
    \/ WaitReturn
    \/ Interrupt
    \/ Kill
    \/ Err

SpecExec == InitExec /\ [][NextExec]_vars

\* Process j, to which a signal was sent, exits.
SignalledExit(j) ==
    /\ j \in 1..Len(Job)
    /\ Job[j].sig # "none"
    /\ \E st \in {0, 1} : ProcExit(j, st)

\* The process of job j has exited, and with it the write ends of its pipes
\* are closed.
PipesClosed(j) == j \in 1..Len(Job) /\ Job[j].proc # "running"

\* One step of a Wait call in progress.
WaitStep == WaitSkip \/ WaitJoin \/ WaitReturn

\* The Executor with the scheduling the runtime gives: the goroutine in Wait and
\* the goroutines of slurp run when they can, the stdin write and the reads of
\* the closed pipes return, and a process that was sent a signal exits.
InitFairExec ==
    /\ Flows = 0
    /\ DisableGC = FALSE
    /\ timed = FALSE
    /\ RunFresh
    /\ jobCap = MaxFairJobs
    /\ eIgnoreErrors \in BOOLEAN
    /\ ExecFresh
    /\ PureFresh

FairSpecExec ==
    /\ InitFairExec
    /\ [][NextExec]_vars
    /\ WF_vars(WaitStep)
    /\ \A j \in 1..MaxJobs :
          /\ WF_vars(SignalledExit(j))
          /\ WF_vars(StdinWriterDone(j))
          /\ WF_vars(PipesClosed(j) /\ DrainStdoutDone(j))
          /\ WF_vars(PipesClosed(j) /\ DrainStderrDone(j))

\* ------------------------------------------------------------ runTest

\* The Spec of the competing flow (iperf3) in runTest.  Log is not modelled.
CompetitorSpec ==
    [Background |-> TRUE, NoWait |-> FALSE, IgnoreErrors |-> TRUE, Stdin |-> FALSE]

\* The Spec of the workload job (fct) in runTest: a foreground job with the
\* test as its Stdin.  The job's Context kills the process at the timeout: an
\* exit with a status that is not zero.
WorkloadSpec ==
    [Background |-> FALSE, NoWait |-> FALSE, IgnoreErrors |-> FALSE, Stdin |-> TRUE]

\* runTest is called, with a competitor CCA or with SoloID, on a new
\* Executor.  res holds the position of runTest and the job RunSpecf returned
\* for the workload.
InitRunTest ==
    /\ Flows = 0
    /\ DisableGC = FALSE
    /\ timed = FALSE
    /\ RunFresh
    /\ jobCap = Cardinality({CompetitorSpec, WorkloadSpec})
    /\ eIgnoreErrors = FALSE
    /\ ExecFresh
    /\ fn = "runTest"
    /\ arg \in [cca : BOOLEAN]
    /\ res = [pc |-> "start", testJob |-> 0]

\* if cca != SoloID { ex.RunSpecf(spec, "... iperf3 ...") ...
RunTestCompetitor(fail) ==
    /\ res.pc = "start"
    /\ arg.cca
    /\ DoRunCommand(CompetitorSpec, fail)
    /\ res' = [res EXCEPT !.pc = "sleep"]
    /\ UNCHANGED <<runVars, fn, arg>>

\* cca == SoloID: the if is skipped.
RunTestSolo ==
    /\ res.pc = "start"
    /\ ~arg.cca
    /\ res' = [res EXCEPT !.pc = "workload"]
    /\ UNCHANGED <<runVars, execVars, fn, arg>>

\* ... time.Sleep(SlowStartDelay) } returns.
RunTestSleep ==
    /\ res.pc = "sleep"
    /\ res' = [res EXCEPT !.pc = "workload"]
    /\ UNCHANGED <<runVars, execVars, fn, arg>>

\* testJob := ex.RunSpecf(executor.Spec{Stdin: testJSON, Context: ctx}, ...),
\* up to the point where RunCommand returns or blocks.
RunTestWorkload(fail) ==
    /\ res.pc = "workload"
    /\ DoRunCommand(WorkloadSpec, fail)
    /\ res' = [pc |-> "interrupt", testJob |-> jobRet']
    /\ UNCHANGED <<runVars, fn, arg>>

\* ex.Interrupt(), once RunSpecf has returned.
RunTestInterrupt ==
    /\ res.pc = "interrupt"
    /\ DoInterrupt
    /\ res' = [res EXCEPT !.pc = "wait"]
    /\ UNCHANGED <<runVars, fn, arg>>

\* ex.Wait() is called.
RunTestWait ==
    /\ res.pc = "wait"
    /\ DoWait
    /\ res' = [res EXCEPT !.pc = "err"]
    /\ UNCHANGED <<runVars, fn, arg>>

\* err = ex.Err(), once Wait has returned; runTest returns err if it is not
\* nil and the data of testJob.Stdout else.
RunTestErr ==
    /\ res.pc = "err"
    /\ DoErr
    /\ res' = [res EXCEPT !.pc = "done"]
    /\ UNCHANGED <<runVars, fn, arg>>

NextRunTest ==
    \/ \E fail \in StartFailures : RunTestCompetitor(fail)
    \/ RunTestSolo
    \/ RunTestSleep
    \/ \E fail \in StartFailures : RunTestWorkload(fail)
    \/ RunCommandReturn
    \/ RunTestInterrupt
    \/ RunTestWait
    \/ WaitSkip
    \/ WaitJoin
    \/ WaitReturn
    \/ RunTestErr
    \/ \E j \in 1..MaxJobs : \E st \in {0, 1} : ProcExit(j, st)
    \/ \E j \in 1..MaxJobs : StdinWriterDone(j)
    \/ \E j \in 1..MaxJobs : DrainStdoutDone(j)
    \/ \E j \in 1..MaxJobs : DrainStderrDone(j)

SpecRunTest == InitRunTest /\ [][NextRunTest]_vars

\* ------------------------------------------------------------ netns.Rig

\* Largest number of namespaces in Rig.namespaces explored.
MaxNs == 2

\* Largest number of signals delivered to the process explored.
MaxSignals == 2

\* Largest number of Teardown calls of the caller after a Setup that
\* succeeded.
MaxTeardowns == 2

\* The goroutines that call Teardown: the caller of Setup and the signal
\* handler that Setup starts.
Threads == {"caller", "handler"}

\* The number of Teardown calls that follow a failed Setup in setupRig: the
\* deferred call of Setup and the deferred call of setupRig.
FailedSetupTeardowns == Cardinality({"Setup", "setupRig"})

\* A new Rig on which Setup is about to be called.  closed is r.closed,
\* closes the number of close(r.done) executed, ns the length of
\* r.namespaces, mu the holder of the mutex, pc the position of each
\* goroutine, seen the value of r.closed each read in Teardown, c the number
\* of signals in the handler's channel, sigs the number of signals delivered,
\* left the number of Teardown calls the caller has yet to make and torn
\* whether a Teardown call has returned.
RigFresh ==
    [closed |-> FALSE, closes |-> 0, ns |-> 0, mu |-> "none",
     pc |-> [t \in Threads |-> IF t = "caller" THEN "setup" ELSE "off"],
     seen |-> [t \in Threads |-> FALSE],
     c |-> 0, sigs |-> 0, left |-> 0, torn |-> FALSE]

\* Setup fails or not, and the caller's number of Teardown calls after a
\* Setup that succeeded.
InitRig ==
    /\ Flows = 0
    /\ DisableGC = FALSE
    /\ timed = FALSE
    /\ RunFresh
    /\ jobCap = 0
    /\ eIgnoreErrors = FALSE
    /\ ExecFresh
    /\ fn = "Rig"
    /\ arg \in [fail : BOOLEAN, calls : 1..MaxTeardowns]
    /\ res = RigFresh

\* Setup: r.init(), then the namespaces are added.  When a part of the setup
\* fails, one namespace or more is in the list, Setup's deferred function
\* calls Teardown and setupRig's deferred function calls it again; when all
\* succeed every namespace is in the list and the signal handler is started.
Setup(n) ==
    /\ res.pc["caller"] = "setup"
    /\ IF arg.fail
       THEN res' = [res EXCEPT !.ns = n, !.left = FailedSetupTeardowns,
                               !.pc["caller"] = "idle"]
       ELSE res' = [res EXCEPT !.ns = MaxNs, !.left = arg.calls,
                               !.pc["caller"] = "idle",
                               !.pc["handler"] = "select"]
    /\ UNCHANGED <<runVars, execVars, fn, arg>>

\* The caller calls r.Teardown().
CallTeardown ==
    /\ res.pc["caller"] = "idle"
    /\ res.left > 0
    /\ res' = [res EXCEPT !.left = @ - 1, !.pc["caller"] = "lock"]
    /\ UNCHANGED <<runVars, execVars, fn, arg>>

\* A signal is delivered: signal.Notify's channel has room for one signal and
\* a signal that finds it full is dropped.
Signal ==
    /\ res.pc["handler"] # "off"
    /\ res.sigs < MaxSignals
    /\ res' = [res EXCEPT !.sigs = @ + 1, !.c = IF @ < 1 THEN @ + 1 ELSE @]
    /\ UNCHANGED <<runVars, execVars, fn, arg>>

\* The handler's select, case sig := <-c: r.Teardown() is called.
HandlerReceive ==
    /\ res.pc["handler"] = "select"
    /\ res.c > 0
    /\ res' = [res EXCEPT !.c = @ - 1, !.pc["handler"] = "lock"]
    /\ UNCHANGED <<runVars, execVars, fn, arg>>

\* The handler's select, case <-r.done: return.
HandlerDone ==
    /\ res.pc["handler"] = "select"
    /\ res.closes > 0
    /\ res' = [res EXCEPT !.pc["handler"] = "exit"]
    /\ UNCHANGED <<runVars, execVars, fn, arg>>

\* Mutant of TeardownLock: Teardown without r.Lock().
TeardownLock_noMutex(t) ==
    /\ res.pc[t] = "lock"
    /\ res' = [res EXCEPT !.pc[t] = "check"]
    /\ UNCHANGED <<runVars, execVars, fn, arg>>

\* Teardown: r.Lock().
TeardownLock(t) ==
    /\ res.pc[t] = "lock"
    /\ res.mu = "none"
    /\ res' = [res EXCEPT !.mu = t, !.pc[t] = "check"]
    /\ UNCHANGED <<runVars, execVars, fn, arg>>

\* Teardown: the test !r.closed.
TeardownCheck(t) ==
    /\ res.pc[t] = "check"
    /\ res' = [res EXCEPT !.seen[t] = res.closed, !.pc[t] = "close"]
    /\ UNCHANGED <<runVars, execVars, fn, arg>>

\* Teardown: r.closed = true; close(r.done), when the test found r.closed
\* false.
TeardownClose(t) ==
    /\ res.pc[t] = "close"
    /\ IF ~res.seen[t]
       THEN res' = [res EXCEPT !.closed = TRUE, !.closes = @ + 1, !.pc[t] = "del"]
       ELSE res' = [res EXCEPT !.pc[t] = "del"]
    /\ UNCHANGED <<runVars, execVars, fn, arg>>

\* Teardown: ip netns del for each name, then r.namespaces =
\* r.namespaces[:0].
TeardownDelete(t) ==
    /\ res.pc[t] = "del"
    /\ res' = [res EXCEPT !.ns = 0, !.pc[t] = "unlock"]
    /\ UNCHANGED <<runVars, execVars, fn, arg>>

\* Teardown returns: the deferred r.Unlock().  The handler goes back to its
\* select.
TeardownUnlock(t) ==
    /\ res.pc[t] = "unlock"
    /\ res' = [res EXCEPT !.mu = IF @ = t THEN "none" ELSE @,
                          !.torn = TRUE,
                          !.pc[t] = IF t = "caller" THEN "idle" ELSE "select"]
    /\ UNCHANGED <<runVars, execVars, fn, arg>>

\* A step of the caller or of the handler.
RigStep ==
    \/ \E n \in 1..MaxNs : Setup(n)
    \/ CallTeardown
    \/ HandlerReceive
    \/ HandlerDone
    \/ \E t \in Threads : TeardownLock(t)
    \/ \E t \in Threads : TeardownCheck(t)
    \/ \E t \in Threads : TeardownClose(t)
    \/ \E t \in Threads : TeardownDelete(t)
    \/ \E t \in Threads : TeardownUnlock(t)

NextRig ==
    \/ \E n \in 1..MaxNs : Setup(n)
    \/ CallTeardown
    \/ Signal
    \/ HandlerReceive
    \/ HandlerDone
    \/ \E t \in Threads : TeardownLock(t)
    \/ \E t \in Threads : TeardownCheck(t)
    \/ \E t \in Threads : TeardownClose(t)
    \/ \E t \in Threads : TeardownDelete(t)
    \/ \E t \in Threads : TeardownUnlock(t)

\* The Rig with its goroutines scheduled: the caller makes its deferred
\* calls, and a goroutine that can take a step takes one.  No signal has to be
\* delivered.
FairSpecRig == InitRig /\ [][NextRig]_vars /\ WF_vars(RigStep)

\* ---------------------------------------------------------- package harm

\* The arguments of LessIsBetter range over the multiples of 50 up to
\* MaxHarmIn steps on either side of zero.
MaxHarmIn == 4

HarmInputs == {50 * k : k \in (0 - MaxHarmIn)..MaxHarmIn}

\* A Harm is a float64; it is kept here as the exact quotient num / den with
\* den >= 0, and +Inf as 1 / 0.  Div(n, d) is the float division n / d for
\* d # 0.
Div(n, d) ==
    IF d < 0 THEN [num |-> 0 - n, den |-> 0 - d] ELSE [num |-> n, den |-> d]

\* Harm(n) for an integer n.
HarmOf(n) == [num |-> n, den |-> 1]

\* var Infinity = Harm(math.Inf(+1))
Infinity == [num |-> 1, den |-> 0]

\* a == b on Harm values.
HarmEq(a, b) == a.num * b.den = b.num * a.den

\* a < b on Harm values.
HarmLess(a, b) == a.num * b.den < b.num * a.den

\* Harm.Invalid: h < 0 || h > 1.
Invalid(h) == HarmLess(h, HarmOf(0)) \/ HarmLess(HarmOf(1), h)

\* Harm.Zero: h == 0.
Zero(h) == HarmEq(h, HarmOf(0))

\* Mutant of Nonzero: Invalid is not consulted.
Nonzero_anyPositive(h) == HarmLess(HarmOf(0), h)

\* Harm.Nonzero: h > 0 && !h.Invalid().
Nonzero(h) == HarmLess(HarmOf(0), h) /\ ~Invalid(h)

\* Mutant of LessIsBetter: the difference is divided by solo.
LessIsBetter_overSolo(solo, workload) ==
    IF workload = 0 THEN Infinity
    ELSE IF workload < solo THEN HarmOf(0)
    ELSE IF solo = 0 THEN Infinity
    ELSE Div(workload - solo, solo)

\* harm.LessIsBetter(solo, workload).
LessIsBetter(solo, workload) ==
    IF workload = 0 THEN Infinity
    ELSE IF workload < solo THEN HarmOf(0)
    ELSE Div(workload - solo, workload)

\* Mutant of MoreIsBetter: the difference is divided by workload.
MoreIsBetter_overWorkload(solo, workload) ==
    IF solo = 0 THEN Infinity
    ELSE IF workload > solo THEN HarmOf(0)
    ELSE Div(solo - workload, workload)

\* harm.MoreIsBetter(solo, workload).
MoreIsBetter(solo, workload) ==
    IF solo = 0 THEN Infinity
    ELSE IF workload > solo THEN HarmOf(0)
    ELSE Div(solo - workload, solo)

InitHarm ==
    /\ Flows = 0
    /\ DisableGC = FALSE
    /\ timed = FALSE
    /\ RunFresh
    /\ jobCap = 0
    /\ eIgnoreErrors = FALSE
    /\ ExecFresh
    /\ fn = "none"
    /\ arg \in [solo : HarmInputs, workload : HarmInputs]
    /\ res = Nil

\* LessIsBetter is applied to the arguments.
CallLessIsBetter ==
    /\ fn = "none"
    /\ fn' = "LessIsBetter"
    /\ res' = LessIsBetter(arg.solo, arg.workload)
    /\ UNCHANGED <<arg, runVars, execVars>>

\* MoreIsBetter is applied to the arguments.
CallMoreIsBetter ==
    /\ fn = "none"
    /\ fn' = "MoreIsBetter"
    /\ res' = MoreIsBetter(arg.solo, arg.workload)
    /\ UNCHANGED <<arg, runVars, execVars>>

NextHarm == CallLessIsBetter \/ CallMoreIsBetter

SpecHarm == InitHarm /\ [][NextHarm]_vars

\* ---------------------------------------------------------------- Analyze

\* The flow logs given to Analyze have up to MaxLog records, with Start and
\* End from StartTimes and EndTimes.
MaxLog == 3

StartTimes == {0, 1}

EndTimes == {2, 3}

LogFlows ==
    {[id |-> 0, Start |-> st, End |-> en, Length |-> 0] :
        st \in StartTimes, en \in EndTimes}

Logs == UNION {[1..n -> LogFlows] : n \in 0..MaxLog}

\* Flow.Duration: f.End.Sub(f.Start).
Duration(f) == f.End - f.Start

\* Data.FlowDurations: the durations of the records, in the order of the log.
FlowDurations(d) == [k \in 1..Len(d) |-> Duration(d[k])]

RECURSIVE Insert(_, _)
\* x put in its place in the sorted sequence s.
Insert(x, s) ==
    IF s = <<>> THEN <<x>>
    ELSE IF x <= Head(s) THEN <<x>> \o s
    ELSE <<Head(s)>> \o Insert(x, Tail(s))

RECURSIVE Float64s(_)
\* sort.Float64s: s in increasing order.
Float64s(s) == IF s = <<>> THEN <<>> ELSE Insert(Head(s), Float64s(Tail(s)))

RECURSIVE Product(_)
Product(s) == IF s = <<>> THEN 1 ELSE Head(s) * Product(Tail(s))

RECURSIVE Power(_, _)
Power(g, n) == IF n = 0 THEN 1 ELSE g * Power(g, n - 1)

\* The integer part of the exact geometric mean of the sorted positive
\* values x.
GeoMeanFloor(x) ==
    CHOOSE g \in 0..x[Len(x)] :
        /\ Power(g, Len(x)) <= Product(x)
        /\ Product(x) < Power(g + 1, Len(x))

\* The values FCTFromFloat64(stat.GeometricMean(x, nil)) can have: the
\* integer part of the exact mean, or one less when the exact mean is an
\* integer and exp(mean of the logarithms) is rounded to just below it.
GeometricMean(x) ==
    LET g == GeoMeanFloor(x)
    IN  IF Power(g, Len(x)) = Product(x) THEN {g - 1, g} ELSE {g}

\* Mutant of Quantile: the rank is rounded down and the value after it is
\* taken.
Quantile_roundDown(p, x) == x[(p * Len(x)) \div 100 + 1]

\* stat.Quantile(p / 100, stat.Empirical, x, nil) on the sorted values x: the
\* first value whose rank reaches p percent of the number of values.
Quantile(p, x) == x[(p * Len(x) + 99) \div 100]

\* metric.FCTFromFloat64: the duration with no harm.
FCTFromFloat64(f) == [Duration |-> f, Harm |-> HarmOf(0)]

\* The zero value of Stats, which the named result holds until assigned.
ZeroStats ==
    [GeoMean |-> FCTFromFloat64(0), Median |-> FCTFromFloat64(0),
     P95 |-> FCTFromFloat64(0)]

\* Mutant of NoDurations: a single duration is refused too.
NoDurations_orOne(durs) == Len(durs) <= 1

\* The test len(durs) == 0 of Analyze.
NoDurations(durs) == Len(durs) = 0

\* Analyze(d): the results (stats, err) it can return for the flows d.
Analyze(d) ==
    LET durs == FlowDurations(d)
    IN  IF NoDurations(durs)
        THEN {[stats |-> ZeroStats,
               err |-> "unable to analyze empty flow durations"]}
        ELSE LET f == Float64s(durs)
             IN  {[stats |-> [GeoMean |-> FCTFromFloat64(g),
                              Median |-> FCTFromFloat64(Quantile(50, f)),
                              P95 |-> FCTFromFloat64(Quantile(95, f))],
                   err |-> Nil] : g \in GeometricMean(f)}

InitAnalyze ==
    /\ Flows = 0
    /\ DisableGC = FALSE
    /\ timed = FALSE
    /\ RunFresh
    /\ jobCap = 0
    /\ eIgnoreErrors = FALSE
    /\ ExecFresh
    /\ fn = "none"
    /\ arg \in Logs
    /\ res = Nil

\* Analyze is applied to the log.
CallAnalyze ==
    /\ fn = "none"
    /\ fn' = "Analyze"
    /\ res' \in Analyze(arg)
    /\ UNCHANGED <<arg, runVars, execVars>>

NextAnalyze == CallAnalyze

SpecAnalyze == InitAnalyze /\ [][NextAnalyze]_vars

\* ----------------------------------------------------------- Stats.SetHarm

\* The durations of the Stats given to SetHarm range over 0..MaxStatDur.
MaxStatDur == 2

\* The values of an FCT: a duration with no harm or with an earlier harm.
FCTs ==
    {[Duration |-> n, Harm |-> h] : n \in 0..MaxStatDur, h \in {HarmOf(0)}}
        \cup {[Duration |-> MaxStatDur, Harm |-> Infinity]}

StatsInputs == [GeoMean : FCTs, Median : FCTs, P95 : FCTs]

\* (f *FCT) SetHarm(solo): f.Harm = harm.LessIsBetter(float64(solo.Duration),
\* float64(f.Duration)).
FCTSetHarm(f, solo) ==
    [f EXCEPT !.Harm = LessIsBetter(solo.Duration, f.Duration)]

\* Mutant of StatsSetHarm: the median is compared with solo's P95.
StatsSetHarm_crossed(s, solo) ==
    [GeoMean |-> FCTSetHarm(s.GeoMean, solo.GeoMean),
     Median |-> FCTSetHarm(s.Median, solo.P95),
     P95 |-> FCTSetHarm(s.P95, solo.P95)]

\* (s *Stats) SetHarm(solo): the value of *s after the call.
StatsSetHarm(s, solo) ==
    [GeoMean |-> FCTSetHarm(s.GeoMean, solo.GeoMean),
     Median |-> FCTSetHarm(s.Median, solo.Median),
     P95 |-> FCTSetHarm(s.P95, solo.P95)]

InitSetHarm ==
    /\ Flows = 0
    /\ DisableGC = FALSE
    /\ timed = FALSE
    /\ RunFresh
    /\ jobCap = 0
    /\ eIgnoreErrors = FALSE
    /\ ExecFresh
    /\ fn = "none"
    /\ arg \in [s : StatsInputs, solo : StatsInputs]
    /\ res = Nil

\* s.SetHarm(solo) is called: res holds *s and the caller's solo after it.
CallSetHarm ==
    /\ fn = "none"
    /\ fn' = "SetHarm"
    /\ res' = [s |-> StatsSetHarm(arg.s, arg.solo), solo |-> arg.solo]
    /\ UNCHANGED <<arg, runVars, execVars>>

NextSetHarm == CallSetHarm

SpecSetHarm == InitSetHarm /\ [][NextSetHarm]_vars

\* ---------------------------------------------------------------- NewTest

\* Times are in milliseconds: time.Second.
Second == 1000

\* var DefaultDuration = 10 * time.Second
DefaultDuration == 10 * Second

\* var DefaultMeanArrival = 200 * time.Millisecond
DefaultMeanArrival == 200

\* The durations given to NewTest are the half seconds up to MaxPlanDur of
\* them, and Run is explored for the plans of up to MaxPlanFlows flows.
MaxPlanDur == 6

MaxPlanFlows == 2

PlanDurations == {(k * Second) \div 2 : k \in 0..MaxPlanDur}

MeanArrivals == {0, 300, Second, 2 * Second, 4 * Second}

\* var DefaultLenP5 = 64 * unit.Kilobyte
DefaultLenP5 == 65536

\* var DefaultLenP95 = 2 * unit.Megabyte
DefaultLenP95 == 2097152

\* The pairs <<LenP5, LenP95>> given to NewTest: both left at 0, and both 5.
LenPairs == {<<0, 0>>, <<5, 5>>}

PlanParams ==
    { [Duration |-> d, MeanArrival |-> a, LenP5 |-> l[1], LenP95 |-> l[2]] :
        d \in PlanDurations, a \in MeanArrivals, l \in LenPairs }

\* Mutant of FlowCount: the quotient is rounded up.
FlowCount_roundUp(d, a) == (d + a - 1) \div a

\* int(t.Duration / t.MeanArrival): the division of two time.Duration.
FlowCount(d, a) == d \div a

\* mfl := math.Exp(mu + 0.5*math.Pow(sigma, 2)), a float64, as the whole
\* number of thousandths of a byte it holds.  With LenP5 = LenP95 = l, sigma
\* is 0 and mfl is exp(log(l)), which the rounding of math.Log and math.Exp
\* leaves at l or one unit in the last place under it.  With the default
\* lengths mfl is 645683.4185...
MeanLen(p5, p95) ==
    IF p5 = p95 THEN {1000 * p5 - 1, 1000 * p5}
    ELSE IF p5 = DefaultLenP5 /\ p95 = DefaultLenP95 THEN {645683418}
    ELSE {}

\* int(x * m / 1000) for whole x and m: the conversion of the float64
\* product of x and an mfl of m thousandths to an integer drops the
\* fraction.
Truncated(x, m) == x * (m \div 1000) + (x * (m % 1000)) \div 1000

\* NewTest(p): the Tests that NewTest can return, one for each float64 that
\* mfl can be, after Params.init has put the defaults in place of the zero
\* fields.  The field mfl is the local variable of that name, in
\* thousandths.
NewTest(p) ==
    LET d == IF p.Duration = 0 THEN DefaultDuration ELSE p.Duration
        a == IF p.MeanArrival = 0 THEN DefaultMeanArrival ELSE p.MeanArrival
        p5 == IF p.LenP5 = 0 THEN DefaultLenP5 ELSE p.LenP5
        p95 == IF p.LenP95 = 0 THEN DefaultLenP95 ELSE p.LenP95
        rps == Second \div a
    IN  { [Duration |-> d,
           MeanArrival |-> a,
           LenP5 |-> p5,
           LenP95 |-> p95,
           Flows |-> FlowCount(d, a),
           mfl |-> m,
           MeanFlowLen |-> m \div 1000,
           Bandwidth |-> Truncated(rps * 8, m)] : m \in MeanLen(p5, p95) }

InitNewTest ==
    /\ Flows = 0
    /\ DisableGC = FALSE
    /\ timed = FALSE
    /\ pcRun = "new"
    /\ RunIdle
    /\ jobCap = 0
    /\ eIgnoreErrors = FALSE
    /\ ExecFresh
    /\ fn = "none"
    /\ arg \in PlanParams
    /\ res = Nil

\* NewTest is applied to the parameters; Run can then be called on the Test
\* it returned.  Run is explored on the Tests of up to MaxPlanFlows flows
\* whose flow lengths LenDraws enumerates, those with sigma = 0.
CallNewTest ==
    /\ fn = "none"
    /\ pcRun = "new"
    /\ fn' = "NewTest"
    /\ res' \in NewTest(arg)
    /\ IF res'.Flows <= MaxPlanFlows /\ PointLen(res')
       THEN Flows' = res'.Flows /\ pcRun' = "entry"
       ELSE UNCHANGED <<Flows, pcRun>>
    /\ UNCHANGED <<arg, execVars>>
    /\ UNCHANGED <<DisableGC, gcPercent, i, loopExit, parentDone, cancelled,
                   errCh, err, wg, timed, clock, dataStart, dataEnd, dataFlow,
                   mu, issued, tpc, reqLen, flow, rerr, tmp, retFlow, retErr>>

NextNewTest == CallNewTest \/ NextRun

SpecNewTest == InitNewTest /\ [][NextNewTest]_vars

\* ------------------------------------------------------ Server.handleFCT

\* The requested flow lengths go up to MaxServLen, the buffer lengths up to
\* MaxBufLen, and the server handles up to MaxRequests requests.
MaxServLen == 4

MaxBufLen == 3

MaxRequests == 2

\* const DefaultBufLen = 32 * 1024
DefaultBufLen == 32 * 1024

\* The decimal digits; a header value is a sequence of characters.
Digits == <<"0", "1", "2", "3", "4", "5", "6", "7", "8", "9">>

IsDigit(c) == \E n \in 1..Len(Digits) : Digits[n] = c

DigitVal(c) == (CHOOSE n \in 1..Len(Digits) : Digits[n] = c) - 1

RECURSIVE ParseUint(_)
\* The value of a sequence of digits.
ParseUint(str) ==
    IF str = <<>> THEN 0
    ELSE ParseUint(SubSeq(str, 1, Len(str) - 1)) * 10 + DigitVal(str[Len(str)])

\* strconv.ParseInt(str, 10, 64): an optional sign and one digit or more;
\* anything else is a syntax error.  (No value of the model is out of the
\* range of 64 bits.)
ParseInt(str) ==
    LET signed == str # <<>> /\ Head(str) \in {"+", "-"}
        digs == IF signed THEN Tail(str) ELSE str
    IN  IF digs = <<>> \/ \E n \in 1..Len(digs) : ~IsDigit(digs[n])
        THEN [val |-> 0, err |-> "syntax"]
        ELSE [val |-> IF signed /\ Head(str) = "-"
                      THEN 0 - ParseUint(digs) ELSE ParseUint(digs),
              err |-> Nil]

\* The values of the flow length header: none, the lengths up to
\* MaxServLen, and values with a sign, with a letter and with a leading zero.
FlowLengthHeaders ==
    {<<>>}
        \cup {<<Digits[n + 1]>> : n \in 0..MaxServLen}
        \cup {<<"-", "1">>, <<"-", "0">>, <<"-">>, <<"+", "2">>, <<"a">>,
              <<"1", "a">>, <<"0", "2">>}

\* What happens to a request with a CCA header in setSockOpts: the option is
\* set, or the connection is no TCP connection, or its file cannot be had,
\* or the kernel refuses the option.
SockResults == {"set", "notTCP", "noFile", "refused"}

\* A request: its CCA header ("" when absent), its flow length header, and
\* what setSockOpts will meet.
Requests ==
    {[cca |-> "", fstr |-> h, sock |-> "set"] : h \in FlowLengthHeaders}
        \cup [cca : {"bbr"}, fstr : FlowLengthHeaders, sock : SockResults]

\* Server.init: the buffer length, the default when it is 0.
ServerBufLen(b) == IF b = 0 THEN DefaultBufLen ELSE b

\* Mutant of SetSockOptsErr: the failure to set the option is not reported.
SetSockOptsErr_dropped(req) == IF req.cca = "" THEN Nil ELSE Nil

\* setSockOpts(r): the error it returns; nil when there is no CCA header or
\* the option was set.
SetSockOptsErr(req) ==
    IF req.cca = "" THEN Nil
    ELSE IF req.sock = "set" THEN Nil
    ELSE "unable to use selected CCA"

\* The congestion control of the connection after setSockOpts(r): the
\* requested one when the option was set, else what it was.
SetSockOptsCCA(req, was) ==
    IF req.cca # "" /\ req.sock = "set" THEN req.cca ELSE was

\* The handler between two requests; conn is the congestion control of the
\* request's connection, "system" on a new connection until an option is
\* set, and tcp tells whether the connection is a *net.TCPConn.
ServerIdle(n, last, cca, t) ==
    [pc |-> "idle", status |-> 0, r |-> 0, body |-> 0, chunks |-> <<>>,
     conn |-> cca, tcp |-> t, failed |-> FALSE, served |-> n, prev |-> last]

\* What setSockOpts meets is what the connection is: the type assertion
\* fails on every connection that is no *net.TCPConn and on no other.
OnConn(req, t) == req.cca # "" => (req.sock = "notTCP" <=> ~t)

InitServer ==
    /\ Flows = 0
    /\ DisableGC = FALSE
    /\ timed = FALSE
    /\ RunFresh
    /\ jobCap = 0
    /\ eIgnoreErrors = FALSE
    /\ ExecFresh
    /\ fn = "handleFCT"
    /\ arg \in [BufLen : 0..MaxBufLen, req : Requests]
    /\ \E t \in BOOLEAN :
          /\ OnConn(arg.req, t)
          /\ res = ServerIdle(0, 0, "system", t)

\* handleFCT up to its loop: setSockOpts, the flow length header and its
\* value; http.Error answers with status 400 and returns.
HandleFCT ==
    /\ fn = "handleFCT"
    /\ res.pc = "idle"
    /\ LET req == arg.req
           conn == SetSockOptsCCA(req, res.conn)
           flen == ParseInt(req.fstr)
       IN  IF SetSockOptsErr(req) # Nil
           THEN res' = [res EXCEPT !.pc = "done", !.status = 400, !.conn = conn]
           ELSE IF req.fstr = <<>>
           THEN res' = [res EXCEPT !.pc = "done", !.status = 400, !.conn = conn]
           ELSE IF flen.err # Nil \/ flen.val < 0
           THEN res' = [res EXCEPT !.pc = "done", !.status = 400, !.conn = conn]
           ELSE res' = [res EXCEPT !.pc = "loop", !.status = 200, !.conn = conn,
                                   !.r = flen.val]
    /\ UNCHANGED <<fn, arg, runVars, execVars>>

\* Mutant of ChunkLen: the whole buffer is written every time.
ChunkLen_whole(r, b) == IF r < 0 THEN r ELSE b

\* The length l of the next write: s.BufLen, or r when r is less.
ChunkLen(r, b) == IF r < b THEN r ELSE b

\* One turn of the loop: w.Write(s.buf[:l]) writes l bytes and r -= n.
WriteChunk ==
    /\ fn = "handleFCT"
    /\ res.pc = "loop"
    /\ res.r > 0
    /\ LET l == ChunkLen(res.r, ServerBufLen(arg.BufLen))
       IN  res' = [res EXCEPT !.r = @ - l, !.body = @ + l,
                              !.chunks = Append(@, l)]
    /\ UNCHANGED <<fn, arg, runVars, execVars>>

\* w.Write returns an error (the client is gone): break.
WriteFail ==
    /\ fn = "handleFCT"
    /\ res.pc = "loop"
    /\ res.r > 0
    /\ res' = [res EXCEPT !.pc = "done", !.failed = TRUE]
    /\ UNCHANGED <<fn, arg, runVars, execVars>>

\* The loop ends at r <= 0 and handleFCT returns.
HandlerReturn ==
    /\ fn = "handleFCT"
    /\ res.pc = "loop"
    /\ res.r <= 0
    /\ res' = [res EXCEPT !.pc = "done"]
    /\ UNCHANGED <<fn, arg, runVars, execVars>>

\* The server takes the next request: on the connection of the last one,
\* which net/http keeps open after an answer it could write and which keeps
\* the congestion control set on it, or on a new connection.
NextRequest(req, keep) ==
    /\ fn = "handleFCT"
    /\ res.pc = "done"
    /\ res.served + 1 < MaxRequests
    /\ keep => ~res.failed
    /\ arg' = [arg EXCEPT !.req = req]
    /\ \E t \in BOOLEAN :
          /\ keep => t = res.tcp
          /\ OnConn(req, t)
          /\ res' = ServerIdle(res.served + 1, res.status,
                               IF keep THEN res.conn ELSE "system", t)
    /\ UNCHANGED <<fn, runVars, execVars>>

\* A step of the handler that does not depend on the client.
HandlerStep == HandleFCT \/ WriteChunk \/ HandlerReturn

NextServer ==
    \/ HandleFCT
    \/ WriteChunk
    \/ WriteFail
    \/ HandlerReturn
    \/ \E req \in Requests : \E keep \in BOOLEAN : NextRequest(req, keep)

SpecServer == InitServer /\ [][NextServer]_vars

\* The server with its handler scheduled.
FairSpecServer == SpecServer /\ WF_vars(HandlerStep)

\* ------------------------------------------------- properties of Run

\* The flow goroutines that were spawned.
Spawned == {k \in Tasks : tpc[k] # "idle"}

\* The flow goroutines whose doRequest returned an error.
Failed == {k \in Tasks : rerr[k] # Nil}

\* The flow goroutines whose doRequest returned a flow and a nil error.
Succeeded ==
    {k \in Tasks : \/ tpc[k] \in {"lock", "read", "write", "unlock"}
                   \/ tpc[k] = "fin" /\ rerr[k] = Nil}

\* The flow goroutines that are inside the critical section of AddFlow.
InCritical == {k \in Tasks : tpc[k] \in {"read", "write", "unlock"}}

\* The flow goroutines whose AddFlow has stored its record.
Appended ==
    {k \in Tasks : \/ tpc[k] = "unlock"
                   \/ tpc[k] = "fin" /\ rerr[k] = Nil}

\* s is a prefix of t.
IsPrefix(s, t) == Len(s) <= Len(t) /\ SubSeq(t, 1, Len(s)) = s

\* C1 (as claimed): whenever Run has returned and the request of some spawned
\* flow failed, the error Run returned is not nil.
C1_RunReturnsFlowError ==
    (pcRun = "done" /\ Failed # {}) => retErr # Nil

\* C2 (as claimed): once Run is past its join barrier every spawned flow
\* goroutine has finished (its AddFlow or its failure signal included), and
\* the log Run returns holds one record for every flow that succeeded.
C2_TasksFinishedAtBarrier ==
    /\ pcRun \in {"end", "ret", "done"} => \A k \in Spawned : tpc[k] = "fin"
    /\ pcRun = "done" => Len(retFlow) = Cardinality(Succeeded)

\* C3: at most one goroutine is inside the critical section of AddFlow, and
\* the log holds exactly one entry per AddFlow call that has stored its
\* record: none is lost, none is duplicated.
C3_NoLostAppend ==
    /\ Cardinality(InCritical) <= 1
    /\ Len(dataFlow) = Cardinality(Appended)
    /\ \A k \in Appended :
          Cardinality({n \in 1..Len(dataFlow) : dataFlow[n] = flow[k]}) = 1

\* Witness of C3: MaxFlows goroutines have each called AddFlow and ended.
C3_Witness ==
    /\ Cardinality(Appended) = MaxFlows
    /\ \A k \in Tasks : tpc[k] = "fin"

\* C4 (as claimed): when Run has returned, no flow failed and the context was
\* never cancelled, every index 0..Flows-1 was issued once and the returned
\* log has exactly Flows records.
C4_AllFlowsIssuedAndRecorded ==
    (pcRun = "done" /\ Failed = {} /\ ~CtxDone) =>
        /\ issued = [n \in 1..Flows |-> n - 1]
        /\ Len(retFlow) = Flows

\* C5 (as claimed): once the issuance loop has received the first failure, the
\* loop has ended and the context is cancelled, the records appended so far
\* are in the returned log, and Run returns that failure only when every
\* spawned flow goroutine has finished.
C5_FirstFailureHandling ==
    loopExit = "err" =>
        /\ pcRun # "loop"
        /\ cancelled
        /\ err # Nil
        /\ pcRun = "done" =>
              /\ retErr = err
              /\ \A k \in Spawned : tpc[k] = "fin"
              /\ Len(retFlow) = Cardinality(Succeeded)

\* C6 (as claimed): while the shared context is cancelled or a failure signal
\* is pending in errCh, no step spawns a flow goroutine.
C6_NoIssueOnceCancelled ==
    [][(CtxDone \/ errCh # <<>>) => issued' = issued]_vars

\* C6 (amended): a step in which the issuance loop takes the cancellation
\* case or the failure case of its select spawns no flow goroutine, and no
\* flow goroutine is spawned after it.
C6_NoIssueAfterBreak ==
    [][loopExit' # "none" => issued' = issued]_vars

\* Witness of C6: the loop was ended by the cancellation (or by a failure)
\* before all flows of the plan were issued, and Run has returned.
C6_Witness ==
    /\ loopExit \in {"ctx", "err"}
    /\ Len(issued) < Flows
    /\ pcRun = "done"

\* C7: errCh never holds more than its capacity, and a goroutine that is
\* about to signal its failure finds room in errCh, so its send does not
\* block and the goroutine ends.
C7_FailureSendNeverBlocks ==
    /\ Len(errCh) <= ErrChCap
    /\ \A k \in Tasks : tpc[k] = "send" => Len(errCh) < ErrChCap

\* Witness of C7: every flow of the plan failed and signalled its failure,
\* and the issuance loop received none of them.
C7_Witness ==
    /\ Flows = MaxFlows
    /\ Len(errCh) = Flows
    /\ \A k \in Tasks : tpc[k] = "fin"

\* C8: every step leaves the records already in the log in place: the log
\* before the step is a prefix of the log after it.
C8_AppendOnly ==
    [][IsPrefix(dataFlow, dataFlow')]_vars

\* Witness of C8: the log holds a record, a failure ended the loop and
\* cancelled the context, and Run has returned the error.
C8_Witness ==
    /\ Len(dataFlow) >= 1
    /\ loopExit = "err"
    /\ cancelled
    /\ pcRun = "done"
    /\ retErr # Nil

\* --------------------------------------------- properties of the Executor

\* C9: a RunCommand call made while the error counter is nonzero and the
\* Executor does not ignore errors returns a nil job, starts no process and
\* leaves the job list and the error counter as they were; a call made on an
\* Executor that ignores errors adds its job and returns it, whatever the
\* counter.
C9_SubmissionGating ==
    [][op' = "RunCommand" =>
          IF Errors > 0 /\ ~eIgnoreErrors
          THEN /\ jobRet' = 0
               /\ Job' = Job
               /\ Errors' = Errors
               /\ pcExec' = "idle"
          ELSE eIgnoreErrors =>
                  /\ Len(Job') = Len(Job) + 1
                  /\ jobRet' = Len(Job')]_vars

\* Witness of C9: a RunCommand call has just been skipped because of the
\* error counter.
C9_Witness ==
    /\ op = "RunCommand"
    /\ jobRet = 0
    /\ Errors > 0
    /\ ~eIgnoreErrors
    /\ Len(Job) < jobCap

\* C10: whenever the caller is not inside RunCommand, the process of every
\* foreground job that was started has exited and has been waited on; the
\* start of a foreground job leaves the error counter alone, and its return
\* adds exactly one to the counter and sets Job.Err when the exit status is
\* not zero and the job's Spec has no IgnoreErrors, and else leaves both as
\* they were.
C10_ForegroundJob ==
    [][/\ pcExec' = "idle" =>
             \A j \in 1..Len(Job') :
                 (~Job'[j].Background /\ Job'[j].proc # "unstarted")
                     => Job'[j].proc = "waited"
       /\ (op' = "RunCommand" /\ pcExec' = "fg") => Errors' = Errors
       /\ op' = "RunCommandReturn" =>
             /\ Job[cur].proc = "exited"
             /\ IF Job[cur].exit # 0 /\ ~Job[cur].IgnoreErrors
                THEN Errors' = Errors + 1 /\ Job'[cur].Err # Nil
                ELSE Errors' = Errors /\ Job'[cur].Err = Nil]_vars

\* Witness of C10: a foreground job without IgnoreErrors has returned with a
\* nonzero exit status, which was counted.
C10_Witness ==
    /\ op = "RunCommandReturn"
    /\ pcExec = "idle"
    /\ \E j \in 1..Len(Job) :
          /\ ~Job[j].Background
          /\ ~Job[j].IgnoreErrors
          /\ Job[j].proc = "waited"
          /\ Job[j].exit # 0
          /\ Job[j].Err = "exit"
    /\ Errors >= 1

\* The background jobs Wait is to join: those without NoWait.
Waitable(j) == Job[j].Background /\ ~Job[j].NoWait

\* C11: a RunCommand call that starts a background job returns that job while
\* its process runs, without blocking; no step removes a job from the job
\* list or changes its classification, and a Wait that has gone through its
\* loop has waited on every started background job without NoWait.
C11_BackgroundJob ==
    [][/\ (/\ op' = "RunCommand"
           /\ Len(Job') > Len(Job)
           /\ Job'[Len(Job')].Background
           /\ Job'[Len(Job')].proc # "unstarted")
             => /\ pcExec' = "idle"
                /\ jobRet' = Len(Job')
                /\ Job'[Len(Job')].proc = "running"
       /\ Len(Job') >= Len(Job)
       /\ \A j \in 1..Len(Job) :
             /\ Job'[j].Background = Job[j].Background
             /\ Job'[j].NoWait = Job[j].NoWait
             /\ Job[j].proc # "unstarted" => Job'[j].proc # "unstarted"
       /\ op' = "WaitReturn" =>
             \A j \in 1..Len(Job') :
                 (Job'[j].Background /\ ~Job'[j].NoWait
                     /\ Job'[j].proc # "unstarted") => Job'[j].proc = "waited"]_vars

\* Witness of C11: RunCommand has just returned a background job whose
\* process is running.
C11_Witness ==
    /\ op = "RunCommand"
    /\ pcExec = "idle"
    /\ jobRet > 0
    /\ Job[jobRet].Background
    /\ Job[jobRet].proc = "running"

\* C12 (as claimed): when a Wait call has returned, every started background
\* job without NoWait has exited and has been waited on, and its nonzero exit
\* was counted (unless the job ignores errors).
C12_WaitJoinsAll ==
    (pcExec = "idle" /\ op \in {"Wait", "WaitReturn"}) =>
        \A j \in 1..Len(Job) :
            (Waitable(j) /\ Job[j].proc # "unstarted") =>
                /\ Job[j].proc = "waited"
                /\ (Job[j].exit # 0 /\ ~Job[j].IgnoreErrors) => Job[j].Err # Nil

\* C13: a Wait call made after an earlier Wait call returns at once: it
\* changes neither the error counter, nor the job list, nor any Job.Err, and
\* it waits on no process.
C13_WaitIdempotent ==
    [][(op' = "Wait" /\ waited) =>
          /\ Errors' = Errors
          /\ Job' = Job
          /\ waited' = waited
          /\ pcExec' = "idle"]_vars

\* Witness of C13: a second Wait call has just returned, and the first one
\* had waited on a background job.
C13_Witness ==
    /\ op = "Wait"
    /\ pcExec = "idle"
    /\ waited
    /\ \E j \in 1..Len(Job) : Waitable(j) /\ Job[j].proc = "waited"

\* C14 (as claimed): a call of Interrupt or Kill raises no error, signals
\* every background job whose process runs (NoWait or not), changes no
\* foreground job and no job whose process does not run, changes nothing when
\* the signal was already sent, and leaves the error counter and the length
\* of the job list unchanged.
C14_SignalBackgroundOnly ==
    [][op' \in {"Interrupt", "Kill"} =>
          /\ pcExec' # "panic"
          /\ Errors' = Errors
          /\ Len(Job') = Len(Job)
          /\ \A j \in 1..Len(Job) :
                /\ (Job[j].Background /\ Job[j].proc = "running") =>
                      Job'[j].sig \in (IF op' = "Kill" THEN {"kill"}
                                                      ELSE {"int", "kill"})
                /\ (~Job[j].Background \/ Job[j].proc # "running") =>
                      Job'[j] = Job[j]
                /\ (Job[j].sig = "kill" \/ (Job[j].sig = "int" /\ op' = "Interrupt")) =>
                      Job'[j] = Job[j]]_vars

\* C15: once Wait is in progress and every background job it is to join that
\* still runs has been sent a signal, Wait returns.
C15_InterruptedWaitReturns ==
    (/\ pcExec = "wait"
     /\ \A j \in 1..Len(Job) :
           (Waitable(j) /\ Job[j].proc = "running") => Job[j].sig # "none")
        ~> (pcExec = "idle")

\* Witness of C15: Wait is in progress on a background job that runs and that
\* Interrupt has signalled.
C15_Witness ==
    /\ pcExec = "wait"
    /\ cur <= Len(Job)
    /\ Waitable(cur)
    /\ Job[cur].proc = "running"
    /\ Job[cur].sig = "int"
    /\ \A j \in 1..Len(Job) :
          (Waitable(j) /\ Job[j].proc = "running") => Job[j].sig # "none"

\* C16: a call of Err returns nil when the error counter is zero and else the
\* error whose text names the counter's value and no other number, and it
\* changes nothing of the Executor.
C16_ErrNamesCount ==
    [][op' = "Err" =>
          /\ (errRet' # Nil) <=> (Errors > 0)
          /\ Errors > 0 => errRet' = ErrText(Errors)
          /\ \A n \in 0..(2 * MaxJobs) : n # Errors => errRet' # ErrText(n)
          /\ UNCHANGED <<eIgnoreErrors, Job, Errors, waited, pcExec, cur,
                         jobRet>>]_vars

\* Witness of C16: Err has just returned the error that names a counter of
\* two.
C16_Witness ==
    /\ op = "Err"
    /\ Errors = 2
    /\ errRet = "2 jobs with nonzero exit status"

\* C17: no step sets the Err of a job whose Spec has IgnoreErrors, and the
\* steps in which such a job can fail (its start in RunCommand, the return of
\* its foreground RunCommand, its turn in the loop of Wait) leave the error
\* counter as it was; so while every job has IgnoreErrors the counter is zero.
C17_IgnoredFailure ==
    [][/\ \A j \in 1..Len(Job') : Job'[j].IgnoreErrors => Job'[j].Err = Nil
       /\ (/\ op' = "RunCommand"
           /\ Len(Job') > Len(Job)
           /\ Job'[Len(Job')].IgnoreErrors) => Errors' = Errors
       /\ (/\ op' \in {"RunCommandReturn", "WaitLoop"}
           /\ cur \in 1..Len(Job)
           /\ Job[cur].IgnoreErrors) => Errors' = Errors
       /\ (\A j \in 1..Len(Job') : Job'[j].IgnoreErrors) => Errors' = 0]_vars

\* Witness of C17: a background job with IgnoreErrors has exited with a
\* status that is not zero and Wait has found it; a background job that Wait
\* would have joined was submitted after that and started, although the
\* Executor does not ignore errors; and Err has returned nil.
C17_Witness ==
    /\ ~eIgnoreErrors
    /\ op = "Err"
    /\ errRet = Nil
    /\ Errors = 0
    /\ \E j \in 1..Len(Job) : \E k \in 1..Len(Job) :
          /\ j < k
          /\ Job[j].IgnoreErrors
          /\ Job[j].Background
          /\ Job[j].proc = "waited"
          /\ Job[j].exit # 0
          /\ Job[j].Err = Nil
          /\ Job[k].Background
          /\ ~Job[k].NoWait
          /\ Job[k].proc \in {"running", "exited"}

\* ------------------------------------ properties of harm and of Analyze

\* C18: LessIsBetter(solo, workload) is the infinite sentinel when workload
\* is 0, else 0 when workload < solo, else (workload - solo) / workload;
\* LessIsBetter(100, 100) = 0, LessIsBetter(100, 150) = 1/3,
\* LessIsBetter(100, 50) = 0 and LessIsBetter(100, 0) is the sentinel.
C18_LessIsBetter ==
    fn = "LessIsBetter" =>
        /\ arg.workload = 0 => res = Infinity
        /\ (arg.workload # 0 /\ arg.workload < arg.solo) =>
              (res.num = 0 /\ res.den # 0)
        /\ (arg.workload # 0 /\ arg.workload >= arg.solo) =>
              /\ res.den # 0
              /\ res.num * arg.workload = (arg.workload - arg.solo) * res.den
        /\ (arg.solo = 100 /\ arg.workload = 100) => (res.num = 0 /\ res.den # 0)
        /\ (arg.solo = 100 /\ arg.workload = 150) => (3 * res.num = res.den /\ res.den # 0)
        /\ (arg.solo = 100 /\ arg.workload = 50) => (res.num = 0 /\ res.den # 0)
        /\ (arg.solo = 100 /\ arg.workload = 0) => (res.den = 0 /\ res.num > 0)

\* Witness of C18: LessIsBetter(100, 150) has returned one third.
C18_Witness ==
    /\ fn = "LessIsBetter"
    /\ arg.solo = 100
    /\ arg.workload = 150
    /\ 3 * res.num = res.den
    /\ res.den > 0

\* The number of the predicates Zero, Nonzero and Invalid that hold for h.
StatesOf(h) ==
    Cardinality({q \in {"Zero", "Nonzero", "Invalid"} :
                    \/ q = "Zero" /\ Zero(h)
                    \/ q = "Nonzero" /\ Nonzero(h)
                    \/ q = "Invalid" /\ Invalid(h)})

\* C19 (as claimed): for every pair of inputs the result of LessIsBetter is
\* zero, a value strictly between 0 and 1, or the infinite sentinel, it is
\* not negative, and exactly one of Zero, Nonzero and Invalid holds for it.
C19_ThreeStates ==
    fn = "LessIsBetter" =>
        /\ \/ Zero(res)
           \/ HarmLess(HarmOf(0), res) /\ HarmLess(res, HarmOf(1))
           \/ res = Infinity
        /\ ~HarmLess(res, HarmOf(0))
        /\ StatesOf(res) = 1

\* C19 (amended): exactly one of Zero, Nonzero and Invalid holds for the
\* result of LessIsBetter on every pair of inputs.  On inputs that are not
\* negative the result is zero, a value greater than 0 and at most 1, or the
\* infinite sentinel; it is 1 when solo is 0 and workload is positive, and
\* Invalid holds for the sentinel only.  When an input is negative the result
\* can be negative or finite and greater than 1, and Invalid holds for it.
C19_ThreeStatesNonNegativeInputs ==
    fn = "LessIsBetter" =>
        /\ StatesOf(res) = 1
        /\ (arg.solo >= 0 /\ arg.workload >= 0) =>
              /\ \/ Zero(res)
                 \/ HarmLess(HarmOf(0), res) /\ ~HarmLess(HarmOf(1), res)
                 \/ res = Infinity
              /\ ~HarmLess(res, HarmOf(0))
              /\ Invalid(res) <=> res = Infinity
              /\ (arg.solo = 0 /\ arg.workload > 0) => HarmEq(res, HarmOf(1))
        /\ (HarmLess(res, HarmOf(0)) \/ (res # Infinity /\ HarmLess(HarmOf(1), res)))
              => (Invalid(res) /\ (arg.solo < 0 \/ arg.workload < 0))

\* Witness of C19: with no negative input the result is 1, which Nonzero
\* holds for.
C19_Witness ==
    /\ fn = "LessIsBetter"
    /\ arg.solo = 0
    /\ arg.workload > 0
    /\ HarmEq(res, HarmOf(1))
    /\ Nonzero(res)
    /\ ~Invalid(res)

\* C20: Analyze returns a non-nil error for a log without records and a nil
\* error for a log with one or more records; with a nil error the median it
\* returns is the duration of a record of the log.
C20_AnalyzeErrorIffEmpty ==
    fn = "Analyze" =>
        /\ Len(arg) = 0 => res.err # Nil
        /\ Len(arg) >= 1 => res.err = Nil
        /\ res.err = Nil =>
              /\ Len(FlowDurations(arg)) > 0
              /\ \E k \in 1..Len(arg) :
                    res.stats.Median.Duration = Duration(arg[k])

\* Witness of C20: Analyze has returned its error for the empty log.
C20_Witness ==
    /\ fn = "Analyze"
    /\ arg = <<>>
    /\ res.err = "unable to analyze empty flow durations"

\* The number of records of the log d whose duration is at most v.
AtMost(d, v) == Cardinality({k \in 1..Len(d) : Duration(d[k]) <= v})

\* v is the p-th empirical percentile of the durations of d: the least
\* duration of a record such that p percent of the records or more have a
\* duration of at most v.
IsPercentile(d, p, v) ==
    /\ \E k \in 1..Len(d) : Duration(d[k]) = v
    /\ 100 * AtMost(d, v) >= p * Len(d)
    /\ \A k \in 1..Len(d) :
          Duration(d[k]) < v => 100 * AtMost(d, Duration(d[k])) < p * Len(d)

\* The logs that hold the records of d in some order.
Reorderings(d) ==
    {l \in Logs :
        /\ Len(l) = Len(d)
        /\ \A f \in LogFlows :
              Cardinality({k \in 1..Len(l) : l[k] = f})
                  = Cardinality({k \in 1..Len(d) : d[k] = f})}

\* C21: for a log with records Analyze returns as Median the 50th and as P95
\* the 95th empirical percentile of the durations, so each is the duration of
\* a record and Median <= P95; the three harm fields are zero, the results
\* are the same for every order of the records, and the log is as it was.
C21_Percentiles ==
    [][(fn' = "Analyze" /\ Len(arg) > 0) =>
          /\ IsPercentile(arg, 50, res'.stats.Median.Duration)
          /\ IsPercentile(arg, 95, res'.stats.P95.Duration)
          /\ res'.stats.Median.Duration <= res'.stats.P95.Duration
          /\ Zero(res'.stats.GeoMean.Harm)
          /\ Zero(res'.stats.Median.Harm)
          /\ Zero(res'.stats.P95.Harm)
          /\ \A l \in Reorderings(arg) : Analyze(l) = Analyze(arg)
          /\ arg' = arg]_vars

\* Witness of C21: Analyze was applied to three records that are not in the
\* order of their durations, and the median is less than the 95th percentile.
C21_Witness ==
    /\ fn = "Analyze"
    /\ Len(arg) = 3
    /\ Duration(arg[1]) > Duration(arg[2])
    /\ Duration(arg[2]) < Duration(arg[3])
    /\ res.stats.Median.Duration < res.stats.P95.Duration

\* The channels of a Stats.
Channels == {"GeoMean", "Median", "P95"}

\* C22: s.SetHarm(solo) sets the harm of each channel to LessIsBetter(solo's
\* duration, s's duration) of that channel, keeps the three durations and
\* solo as they were, and gives a channel the same harm whatever the other
\* two channels of s and of solo hold.
C22_SetHarmFrame ==
    [][fn' = "SetHarm" =>
          /\ \A c \in Channels :
                /\ res'.s[c].Harm
                      = LessIsBetter(arg.solo[c].Duration, arg.s[c].Duration)
                /\ res'.s[c].Duration = arg.s[c].Duration
                /\ \A t \in StatsInputs :
                      /\ t[c] = arg.s[c] =>
                            StatsSetHarm(t, arg.solo)[c] = res'.s[c]
                      /\ t[c] = arg.solo[c] =>
                            StatsSetHarm(arg.s, t)[c] = res'.s[c]
          /\ res'.solo = arg.solo
          /\ arg' = arg]_vars

\* Witness of C22: SetHarm has given the three channels three different
\* harms, the median's from the two medians.
C22_Witness ==
    /\ fn = "SetHarm"
    /\ Zero(res.s.GeoMean.Harm)
    /\ Nonzero(res.s.Median.Harm)
    /\ res.s.P95.Harm = Infinity
    /\ arg.solo.Median.Duration # arg.solo.P95.Duration
    /\ arg.solo.Median.Duration # arg.solo.GeoMean.Duration

\* ------------------------------------------------- properties of NewTest

\* n is the integer part of d / a.
IsFloor(n, d, a) == n * a <= d /\ d < (n + 1) * a

\* C23 (as claimed): for every duration D >= 0 and mean arrival interval
\* A > 0 the flow count of the Test is the integer part of D / A, and no step
\* of Run changes the Test or the flow count Run works with.
C23_FlowCount ==
    [][fn' = "NewTest" =>
          /\ arg'.MeanArrival > 0 =>
                IsFloor(res'.Flows, arg'.Duration, arg'.MeanArrival)
          /\ fn = "NewTest" => (res' = res /\ Flows' = Flows)]_vars

\* C23 (amended): for every duration D > 0 and mean arrival interval A > 0
\* the flow count of the Test is the integer part of D / A; a duration of 0
\* stands for the default of 10 s, and the flow count is then the integer
\* part of 10 s / A.  No step of Run changes the Test or the flow count Run
\* works with.
C23_FlowCountWithDefault ==
    [][fn' = "NewTest" =>
          /\ (arg'.MeanArrival > 0 /\ arg'.Duration > 0) =>
                IsFloor(res'.Flows, arg'.Duration, arg'.MeanArrival)
          /\ (arg'.MeanArrival > 0 /\ arg'.Duration = 0) =>
                IsFloor(res'.Flows, 10 * Second, arg'.MeanArrival)
          /\ fn = "NewTest" => (res' = res /\ Flows' = Flows)]_vars

\* Witness of C23: the duration was left at 0, the Test has the two flows
\* of 10 s at one flow per 4 s, and Run has issued them and returned.
C23_Witness ==
    /\ fn = "NewTest"
    /\ arg.Duration = 0
    /\ arg.MeanArrival = 4 * Second
    /\ res.Flows = 2
    /\ pcRun = "done"
    /\ Len(issued) = 2

\* floor(x * m / d) for an m of up to ten digits, by long division.
MulDiv(x, m, d) ==
    LET hi == x * (m \div 1000)
        lo == x * (m % 1000)
    IN  (hi \div d) * 1000 + ((hi % d) * 1000 + lo) \div d

\* C30 (as claimed): the bandwidth of the Test is the flow count, divided by
\* the duration in seconds, times the mean flow length, times 8, as a whole
\* number of bits per second.  With the duration in milliseconds and the
\* mean flow length in thousandths of a byte that is flow count x 8 x mfl /
\* duration.
C30_Bandwidth ==
    fn = "NewTest" => res.Bandwidth = MulDiv(res.Flows * 8, res.mfl, res.Duration)

\* ------------------------------------------- further properties of Run

RECURSIVE SumLength(_)
\* The sum of the Length of the records of the log d.
SumLength(d) == IF d = <<>> THEN 0 ELSE Head(d).Length + SumLength(Tail(d))

RECURSIVE SumReqLen(_)
\* The sum of the lengths requested for the flows of the set T.
SumReqLen(T) ==
    IF T = {} THEN 0
    ELSE LET k == CHOOSE x \in T : TRUE
         IN  reqLen[k] + SumReqLen(T \ {k})

\* C24 (as claimed): the Length of every record of the log is the number of
\* body bytes of the flow's response; so when Run has returned the records of
\* all its flows and every response had a body of the requested length, the
\* sum of the Length of the records is the sum of the requested lengths.
C24_RecordedLength ==
    /\ \A n \in 1..Len(dataFlow) : dataFlow[n].Length = dataFlow[n].body
    /\ (/\ pcRun = "done"
        /\ Len(retFlow) = Flows
        /\ \A n \in 1..Len(retFlow) :
              retFlow[n].body = reqLen[retFlow[n].id])
          => SumLength(retFlow) = SumReqLen(1..Flows)

\* ----------------------------------------------- properties of the server

RECURSIVE SumSeq(_)
SumSeq(q) == IF q = <<>> THEN 0 ELSE Head(q) + SumSeq(Tail(q))

\* The flow length header is a plain number: digits only.
PlainNumber(str) ==
    /\ str # <<>>
    /\ \A n \in 1..Len(str) : IsDigit(str[n])

\* C25: for a request whose flow length header is the number L and a buffer
\* length B > 0, every chunk the handler writes has at least 1 and at most B
\* bytes, the chunks add up to the body written and never to more than L,
\* the body is L when the handler has returned and no write failed (nothing
\* is written for L = 0), and the loop ends.
C25_ExactBody ==
    /\ [](LET req == arg.req
              b == arg.BufLen
          IN  (PlainNumber(req.fstr) /\ b > 0 /\ res.status = 200) =>
                  /\ \A n \in 1..Len(res.chunks) :
                        res.chunks[n] >= 1 /\ res.chunks[n] <= b
                  /\ res.body = SumSeq(res.chunks)
                  /\ res.body + res.r = ParseUint(req.fstr)
                  /\ res.r >= 0
                  /\ (res.pc = "done" /\ ~res.failed) =>
                        res.body = ParseUint(req.fstr)
                  /\ ParseUint(req.fstr) = 0 => res.chunks = <<>>)
    /\ (res.pc = "loop" /\ ~res.failed) ~> (res.pc = "done")

\* Witness of C25: the handler has returned after it wrote a body of 4 bytes
\* in a chunk of 3 and a chunk of 1.
C25_Witness ==
    /\ res.pc = "done"
    /\ arg.req.fstr = <<"4">>
    /\ arg.BufLen = 3
    /\ res.chunks = <<3, 1>>
    /\ res.body = 4

\* The request is one the handler refuses: a CCA that cannot be set, no flow
\* length header, or a value that is no number or is negative.
BadRequest(req) ==
    \/ req.cca # "" /\ req.sock # "set"
    \/ req.fstr = <<>>
    \/ LET digs == IF Head(req.fstr) \in {"+", "-"}
                   THEN Tail(req.fstr) ELSE req.fstr
       IN  \/ ~PlainNumber(digs)
           \/ Head(req.fstr) = "-" /\ ParseUint(digs) > 0

\* C26: a request the handler refuses is answered with status 400 and no
\* body byte is written for it; the handler leaves the congestion control of
\* the connection as it was unless it set the requested one (a new
\* connection has the system's, a kept one what an earlier request set); and
\* after every request, refused or not, the handler has returned and the
\* next request is handled.
C26_BadRequest ==
    [][/\ (res'.pc \in {"loop", "done"} /\ BadRequest(arg'.req)) =>
             /\ res'.pc = "done"
             /\ res'.status = 400
             /\ res'.body = 0
             /\ res'.chunks = <<>>
       /\ (res'.pc \in {"loop", "done"} /\ ~BadRequest(arg'.req)) =>
             res'.status = 200
       /\ res.pc # "done" =>
             /\ res'.conn \in {res.conn, arg.req.cca}
             /\ (arg.req.cca = "" \/ arg.req.sock # "set") =>
                   res'.conn = res.conn
       /\ (res.pc = "done" /\ res'.conn # res.conn) => res'.conn = "system"
       /\ (res.pc = "done" /\ res.served + 1 < MaxRequests) =>
             \A req \in Requests :
                 \E keep \in BOOLEAN : ENABLED NextRequest(req, keep)]_vars

\* Witness of C26: after a request that set the congestion control and that
\* it refused for its missing flow length, the server has answered the next
\* request, on the same connection, with a full body, the congestion control
\* still set.
C26_Witness ==
    /\ res.prev = 400
    /\ res.served = 1
    /\ res.pc = "done"
    /\ res.status = 200
    /\ res.body = 4
    /\ arg.req.cca = ""
    /\ res.conn = "bbr"

\* ------------------------------------------------ further properties of harm

\* C27: MoreIsBetter(solo, workload) is the infinite sentinel when solo is
\* 0, and else 0 when workload >= solo and (solo - workload) / solo when
\* workload < solo.
C27_MoreIsBetter ==
    fn = "MoreIsBetter" =>
        /\ arg.solo = 0 => res = Infinity
        /\ (arg.solo # 0 /\ arg.workload >= arg.solo) =>
              (res.num = 0 /\ res.den # 0)
        /\ (arg.solo # 0 /\ arg.workload < arg.solo) =>
              /\ res.den # 0
              /\ res.num * arg.solo = (arg.solo - arg.workload) * res.den

\* Witness of C27: MoreIsBetter(100, 50) has returned one half.
C27_Witness ==
    /\ fn = "MoreIsBetter"
    /\ arg.solo = 100
    /\ arg.workload = 50
    /\ 2 * res.num = res.den
    /\ res.den > 0

\* ------------------------------------------- properties of the timestamps

\* Run has taken the test end timestamp.
EndTaken == pcRun \in {"ret", "done"}

\* C28: no flow is issued before the test start timestamp is taken, no
\* request is under way when the test end timestamp is taken or after, and
\* for every record of the log test Start <= record Start <= record End, and
\* record End <= test End once the end timestamp is taken.
C28_TimestampOrder ==
    /\ pcRun = "entry" => issued = <<>>
    /\ EndTaken => \A k \in Tasks : tpc[k] \notin {"start", "inflight"}
    /\ \A n \in 1..Len(dataFlow) :
          /\ dataStart <= dataFlow[n].Start
          /\ dataFlow[n].Start <= dataFlow[n].End
          /\ EndTaken => dataFlow[n].End <= dataEnd
    /\ \A k \in Tasks :
          tpc[k] \in {"lock", "read", "write", "unlock"} =>
              /\ dataStart <= flow[k].Start
              /\ flow[k].Start <= flow[k].End
              /\ EndTaken => flow[k].End <= dataEnd

\* Witness of C28: Run has returned a log of two records, each between the
\* start and the end of the test.
C28_Witness ==
    /\ timed
    /\ pcRun = "done"
    /\ Len(retFlow) = 2
    /\ \A n \in 1..2 :
          /\ dataStart < retFlow[n].Start
          /\ retFlow[n].Start < retFlow[n].End
          /\ retFlow[n].End < dataEnd

\* C29 (as claimed): the records of the log are in the order of their End
\* timestamps.
C29_CompletionOrder ==
    \A m \in 1..Len(dataFlow) : \A n \in 1..Len(dataFlow) :
        m < n => dataFlow[m].End <= dataFlow[n].End

\* C29 (amended): the records are in the log in the order of the AddFlow
\* calls: every step that changes the log puts the record of a task that is
\* inside AddFlow after the records the log had, whatever its End timestamp.
C29_AppendOrder ==
    [][dataFlow' # dataFlow =>
          \E k \in Tasks :
              /\ tpc[k] = "write"
              /\ mu = k
              /\ dataFlow' = dataFlow \o <<flow[k]>>]_vars

\* Witness of C29: the first record of the log has a later End timestamp
\* than the second.
C29_Witness ==
    /\ timed
    /\ Len(dataFlow) = 2
    /\ dataFlow[1].End > dataFlow[2].End

\* ------------------------------------------- termination of Test.Run

\* C31: Run terminates, for every flow count: the issuance loop ends (by
\* exhaustion, cancellation or failure), the join barrier is passed and Run
\* returns.
C31_RunTerminates ==
    <>(/\ loopExit # "none"
       /\ wg = 0
       /\ pcRun = "done")

\* Witness of C31: Run has returned after its loop was ended by the
\* cancellation of the context, with a flow whose round trip failed.
C31_Witness ==
    /\ pcRun = "done"
    /\ loopExit = "ctx"
    /\ \E k \in Tasks : rerr[k] # Nil

\* ------------------------------------------- the collector setting

\* Automatic collection is off: debug.SetGCPercent of a negative value.
GCDisabled == gcPercent < 0

\* C33: with DisableGC, automatic collection is off from before the first
\* flow is issued until the end timestamp is taken (after the join barrier),
\* and it is on when Run returns, however the loop ended; without DisableGC
\* no step of Run changes the collector setting.
C33_GCWindow ==
    /\ [](DisableGC =>
            /\ pcRun \in {"loop", "wait", "end"} => GCDisabled
            /\ (issued # <<>> /\ ~EndTaken) => GCDisabled
            /\ EndTaken => ~GCDisabled)
    /\ [][~DisableGC => gcPercent' = gcPercent]_vars

\* Witness of C33: with DisableGC, Run has returned after a flow failure
\* with the collector on, and flows were issued.
C33_Witness ==
    /\ DisableGC
    /\ pcRun = "done"
    /\ loopExit = "err"
    /\ issued # <<>>
    /\ ~GCDisabled

\* ------------------------------------------- the goroutines of slurp

\* No goroutine of slurp of the job is running.
Drained(job) ==
    /\ job.stdinW # "run"
    /\ job.outD # "run"
    /\ job.errD # "run"
    /\ job.wg = 0

\* C32: each of Stdout and Stderr of a job has one drain goroutine, started
\* in the step that starts the process, beside the running process, and never
\* started again; Command.Wait is called on the process (and onError reads
\* job.Stderr after it) only in a state where the drain goroutines and the
\* stdin writer have ended; a job whose process was not started has no
\* goroutine that writes its buffers.
C32_DrainBeforeWait ==
    /\ [](\A j \in 1..Len(Job) :
            /\ Job[j].proc = "unstarted" <=> Job[j].outD = "off"
            /\ Job[j].proc = "unstarted" <=> Job[j].errD = "off"
            /\ Job[j].stdinW # "off" => Job[j].Stdin /\ Job[j].proc # "unstarted"
            /\ Job[j].proc = "waited" => Drained(Job[j])
            /\ Job[j].Err # Nil => Drained(Job[j]))
    /\ [][Job' # Job =>
             /\ \A j \in 1..Len(Job') :
                  (/\ Job'[j].proc # "unstarted"
                   /\ (j > Len(Job) \/ Job[j].proc = "unstarted"))
                  => /\ Job'[j].proc = "running"
                     /\ Job'[j].outD = "run"
                     /\ Job'[j].errD = "run"
             /\ \A j \in 1..Len(Job) :
                  Job'[j] # Job[j] =>
                     /\ (Job[j].proc # "waited" /\ Job'[j].proc = "waited")
                           => Drained(Job[j])
                     /\ Job[j].outD = "run" => Job'[j].outD \in {"run", "done"}
                     /\ Job[j].outD = "done" => Job'[j].outD = "done"
                     /\ Job[j].errD = "run" => Job'[j].errD \in {"run", "done"}
                     /\ Job[j].errD = "done" => Job'[j].errD = "done"]_vars

\* Witness of C32: a job with a Stdin payload was waited on after its three
\* goroutines ended, and its failure was recorded.
C32_Witness ==
    \E j \in 1..Len(Job) :
        /\ Job[j].Stdin
        /\ Job[j].proc = "waited"
        /\ Job[j].stdinW = "done" /\ Job[j].outD = "done" /\ Job[j].errD = "done"
        /\ Job[j].Err # Nil

\* ------------------------------------------- the error counter

\* The jobs of the list with a non-nil Err.
FailedJobs == {j \in 1..Len(Job) : Job[j].Err # Nil}

\* C35 (as claimed): the error counter is the number of jobs with a non-nil
\* Job.Err and never exceeds the number of jobs in the list.
C35_CountOncePerJob ==
    /\ Errors = Cardinality(FailedJobs)
    /\ Errors <= Len(Job)

\* C36 (as claimed): every background job in the list has a started process,
\* and no call of Interrupt or Kill dereferences a nil Command.Process.
C36_BackgroundStarted ==
    /\ NilProcess = {}
    /\ pcExec # "panic"

\* ------------------------------------------- the competition run of runTest

\* The jobs of the list that are background jobs.
Competitors == {j \in 1..Len(Job) : Job[j].Background}

\* The workload job is in the list and its process is not running: it was
\* waited on, or it was not started.
WorkloadOver ==
    /\ res.testJob # 0
    /\ Job[res.testJob].proc \in {"waited", "unstarted"}
    /\ pcExec # "fg"

\* C34 (as claimed): in a solo run no background job is started; in a
\* competition run the competitor is the first job, a background job with a
\* started process when the workload job is submitted; SIGINT is sent, and
\* Wait is entered, only when the workload job is over, and a competitor
\* that still runs when Wait is entered was sent SIGINT; the competitor
\* records no error and the run fails (an error from Err, or a panic) only
\* with an error of the workload job.
C34_CompetitionRun ==
    /\ fn = "runTest"
    /\ ~arg.cca => Competitors = {}
    /\ (arg.cca /\ res.pc \notin {"start", "sleep", "workload"}) =>
          /\ Competitors = {1}
          /\ Job[1].proc # "unstarted"
          /\ res.testJob = Len(Job)
    /\ \A j \in Competitors :
          /\ Job[j].sig = "int" => WorkloadOver
          /\ Job[j].Err = Nil
          /\ (waited /\ Job[j].proc = "running") => Job[j].sig = "int"
    /\ waited => WorkloadOver
    /\ pcExec # "panic"
    /\ (res.pc = "done" /\ errRet # Nil) => Job[res.testJob].Err # Nil

\* ------------------------------------------- Rig.Teardown

\* C37: r.done is never closed twice, whatever the number and the
\* interleaving of the Teardown calls of the caller and of the handler; once
\* a Teardown call has returned r.done is closed and r.namespaces is empty;
\* and once r.done is closed the signal handler, if it was started, returns.
C37_TeardownOnce ==
    /\ [](fn = "Rig" /\ res.closes <= 1)
    /\ [](res.torn => res.closes = 1 /\ res.closed /\ res.ns = 0)
    /\ (res.closes = 1) ~> (res.pc["handler"] \in {"off", "exit"})

\* Witness of C37: the handler has returned after it called Teardown on a
\* signal and found the Rig closed by the caller, with r.done closed once.
C37_Witness ==
    /\ fn = "Rig"
    /\ res.pc["handler"] = "exit"
    /\ res.seen["handler"]
    /\ res.closes = 1
    /\ res.left = 0
    /\ res.pc["caller"] = "idle"

====
